---- MODULE Spec2Model ----
(***************************************************************************)
(* Flight search: the Flight Record Builder (process_flight_response of    *)
(* src/app.py and FlightSearchApp._process_flight_response of              *)
(* src/cerca_voli_gui.py) and its dedup/merge ledger, driven by the        *)
(* per-pair loop of search_specific_destinations; the search entry points  *)
(* (api_search, api_search_stream, the GUI search) with request            *)
(* validation, the destination expander, the expansion of country          *)
(* destinations over the geography tree, the streamed events and the       *)
(* sorting of the returned list.                                           *)
(***************************************************************************)
EXTENDS Integers, Sequences, FiniteSets, TLC

\* Largest number of itinerary items in one raw response.
MaxItems == 2

\* Largest number of results in one everywhereDestination / countryDestination
\* response of the expander specifications.
MaxResults == 2

\* Script filter configuration (src/cerca_voli.py) and the price default.
MAX_PRICE == 100
MIN_DEPARTURE_HOUR == 18
MAX_ARRIVAL_HOUR == 23
MissingPrice == 999999

\* A key that is absent from a backend dict.
Absent == "<absent>"

(***************************************************************************)
(* State of one search.  variant: the server (src/app.py) or the GUI       *)
(* (src/cerca_voli_gui.py) builder; flt: the request's filter parameters;  *)
(* pc, pair: position in the origin x destination loop; flight_response:   *)
(* the buckets of the raw response in hand; voli_trovati, voli_keys: the   *)
(* aggregate list and the ledger; raised: the exception that left the last *)
(* builder call; cards: flight cards scheduled by the GUI.  accepted,      *)
(* firstSeen and seenIds record history for the properties: the (key,      *)
(* price) of every record handed to the ledger, the keys in order of first *)
(* hand-over, and the itinerary ids of the earlier responses.              *)
(*                                                                         *)
(* State of the orchestrator around the builder.  entry: the caller        *)
(* (api_search, api_search_stream or the GUI thread); payload: the JSON    *)
(* body of the request; search_everywhere: the search mode; idx: position  *)
(* in the origin loop of the world scan and in the country loop of the     *)
(* drill-down; all_countries, all_cities: the dicts of the Destination     *)
(* Expander, in insertion order; events: the server-sent events yielded so *)
(* far; response: what the caller got back.  calls records history: every  *)
(* backend call issued, with its outcome.  dest_items: the selected        *)
(* destinations of the request, normalized, countries replaced by their    *)
(* places once expanded.  outputs records history: the aggregate list and  *)
(* the exception each finished builder run on a fresh ledger ended with.   *)
(*                                                                         *)
(* State of the desktop application.  searching, search_btn and            *)
(* results_title: the flag, the state of the search button and the title   *)
(* of the results pane of FlightSearchApp; search_threads: the worker       *)
(* threads started so far, each with its arguments and its position in     *)
(* search_flights; after_queue: the callbacks handed to root.after(0, ...)  *)
(* that the main loop has not run yet.  search_after_id, search_results    *)
(* and dropdown_visible: the pending debounce timer, the result list and   *)
(* the visibility of the dropdown of one AirportSearchWidget, and          *)
(* allow_everywhere whether it offers "Ovunque"; lookup_threads:           *)
(* the threads of its lookups, each with its query and position.  issued   *)
(* records history: the queries handed to _search_airports, in order.      *)
(***************************************************************************)
VARIABLES variant, flt, pc, pair, flight_response,
          voli_trovati, voli_keys, raised, cards,
          accepted, firstSeen, seenIds,
          entry, payload, search_everywhere, idx,
          all_countries, all_cities, events, response, calls,
          dest_items, outputs,
          searching, search_btn, results_title, search_threads, after_queue,
          search_after_id, search_results, dropdown_visible, allow_everywhere,
          lookup_threads, issued

builderVars == << variant, flt, pc, pair, flight_response,
                  voli_trovati, voli_keys, raised, cards,
                  accepted, firstSeen, seenIds >>

searchVars == << entry, payload, search_everywhere, idx,
                 all_countries, all_cities, events, response, calls >>

guiVars == << searching, search_btn, results_title, search_threads, after_queue,
              search_after_id, search_results, dropdown_visible, allow_everywhere,
              lookup_threads, issued >>

vars == << builderVars, searchVars, dest_items, outputs, guiVars >>

\* FlightSearchApp.__init__ 658-664 and AirportSearchWidget.__init__ 24-69: no
\* search and no lookup has been started
GuiIdle ==
    /\ searching = FALSE
    /\ search_btn = "normal"
    /\ results_title = ""
    /\ search_threads = << >>
    /\ after_queue = << >>
    /\ search_after_id = ""
    /\ search_results = << >>
    /\ dropdown_visible = FALSE
    /\ allow_everywhere = FALSE
    /\ lookup_threads = << >>
    /\ issued = << >>


(***************************************************************************)
(* Timestamps: an ISO string is absent/empty, unparseable, or a date-time. *)
(***************************************************************************)
TS(d, h, m) == [kind |-> "ok", date |-> d, hour |-> h, minute |-> m, second |-> 0]
NoTS == [kind |-> "none", date |-> 0, hour |-> 0, minute |-> 0, second |-> 0]
BadTS == [kind |-> "bad", date |-> 0, hour |-> 0, minute |-> 0, second |-> 0]

\* `if seg_arr` / `not dep_str`: the string is non-empty.
Truthy(ts) == ts.kind # "none"

\* datetime.fromisoformat succeeds (otherwise it raises ValueError).
Parses(ts) == ts.kind = "ok"

TwoDigits(n) == IF n < 10 THEN "0" \o ToString(n) ELSE ToString(n)

\* dt.strftime("%H:%M")
strftime(ts) == TwoDigits(ts.hour) \o ":" \o TwoDigits(ts.minute)

\* f"{duration // 60}h {duration % 60:02d}min"
DurationString(mins) == ToString(mins \div 60) \o "h " \o TwoDigits(mins % 60) \o "min"

TotalSeconds(ts) == ((ts.date * 24 + ts.hour) * 60 + ts.minute) * 60 + ts.second

\* int(x / 60): truncation toward zero.
TruncDiv60(x) == IF x >= 0 THEN x \div 60 ELSE 0 - ((0 - x) \div 60)

\* dt.hour * 60 + dt.minute
MinuteOfDay(ts) == ts.hour * 60 + ts.minute

(***************************************************************************)
(* Raw itinerary items.                                                    *)
(***************************************************************************)
Seg(arr, dep, code) == [arrival |-> arr, departure |-> dep, city |-> Absent,
                        name |-> code, displayCode |-> code]

Item(id, price, dep, arr, stops, segs, carriers, orig) ==
    [id |-> id, price |-> price, legs |-> "present",
     departure |-> dep, arrival |-> arr, stopCount |-> stops,
     durationInMinutes |-> 120, carriers |-> carriers,
     origin |-> orig, destCode |-> "STN", destCity |-> "Londra",
     destCountry |-> Absent, segments |-> segs]

GoodSegs == << Seg(TS(1, 18, 50), TS(1, 18, 0), "MXP"),
               Seg(TS(1, 20, 0), TS(1, 19, 20), "STN") >>
BadSegs == << Seg(BadTS, TS(1, 19, 0), "MXP"),
              Seg(TS(1, 21, 0), TS(1, 20, 0), "STN") >>

ItemPool ==
    { Item("a", <<80>>, TS(1, 18, 0), TS(1, 20, 0), 0, <<>>, <<"Ryanair">>, "VCE"),
      Item("b", <<30>>, TS(1, 18, 0), TS(1, 20, 0), 0, <<>>, <<"Ryanair">>, Absent),
      Item("b", <<80>>, TS(1, 18, 0), TS(1, 20, 0), 0, <<>>, <<"EASYJET">>, "VCE"),
      Item("a", <<150>>, TS(1, 18, 0), TS(1, 20, 0), 0, <<>>, <<"Ryanair">>, "VCE"),
      Item("b", <<80>>, TS(1, 18, 30), TS(1, 23, 30), 0, <<>>, <<"Ryanair">>, "VCE"),
      Item("a", <<80>>, TS(1, 17, 59), TS(1, 20, 0), 0, <<>>, <<"Ryanair">>, "VCE"),
      Item("b", <<80>>, TS(1, 23, 30), TS(1, 23, 45), 0, <<>>, <<>>, "VCE"),
      Item("a", <<50>>, TS(1, 18, 0), TS(1, 20, 0), 1, GoodSegs, <<"easyJet">>, "VCE"),
      Item("b", <<80>>, TS(1, 18, 0), TS(2, 20, 0), 0, <<>>, <<"Ryanair">>, "VCE"),
      Item("b", <<80>>, TS(1, 19, 0), TS(1, 21, 0), 1, BadSegs, <<"Ryanair">>, "VCE"),
      Item(Absent, <<80>>, TS(1, 18, 0), TS(1, 20, 0), 0, <<>>, <<"Ryanair">>, "VCE"),
      [Item("a", <<80>>, NoTS, NoTS, 0, <<>>, <<>>, "VCE") EXCEPT !.legs = "empty"],
      Item("a", <<80>>, BadTS, TS(1, 20, 0), 0, <<>>, <<"Ryanair">>, "VCE"),
      Item("a", <<80>>, NoTS, TS(1, 20, 0), 0, <<>>, <<"Ryanair">>, "VCE") }

(***************************************************************************)
(* Filters of the Flight Record Builder.                                   *)
(***************************************************************************)
\* item.get("price", {}).get("raw", 999999)
RawPrice(item) == IF item.price = <<>> THEN MissingPrice ELSE item.price[1]

\* Variant: the ceiling test is missing.
PriceOk_NoCeiling(price, max_price) == TRUE

\* not (price > max_price)
PriceOk(price, max_price) == ~(price > max_price)

\* Variant: only the lower bound of the departure window is tested.
DepartureInWindow_LowerOnly(dep, min_hour, max_hour) ==
    ~(dep.hour * 60 + dep.minute < min_hour * 60)

\* server: not (dep_minutes < min_hour * 60 or dep_minutes > max_hour * 60)
DepartureInWindow(dep, min_hour, max_hour) ==
    ~(MinuteOfDay(dep) < min_hour * 60 \/ MinuteOfDay(dep) > max_hour * 60)

\* GUI: not (dep.hour < min_hour)
DepartureHourOk(dep, min_hour) == ~(dep.hour < min_hour)

\* server, first loop: not (arr_minutes < min_arr_minutes or arr_minutes > max_arr_minutes)
ArrivalInWindow(arr, min_arrival_hour, max_arrival_hour) ==
    ~(MinuteOfDay(arr) < min_arrival_hour * 60 \/ MinuteOfDay(arr) > max_arrival_hour * 60)

\* Variant: the same-day flag is ignored.
SameDayOk_Ignored(same_day, dep, arr) == TRUE

\* not (same_day and arr.date() != dep.date())
SameDayOk(same_day, dep, arr) == ~(same_day /\ arr.date # dep.date)

\* Variant: the direct-only flag is ignored.
DirectOk_Ignored(direct_only, stops) == TRUE

\* not (direct_only and stops > 0)
DirectOk(direct_only, stops) == ~(direct_only /\ stops > 0)

(***************************************************************************)
(* Carrier name.                                                           *)
(***************************************************************************)
\* "easyjet" in name.strip().lower(), on the carrier names of the pool
ContainsEasyjet(name) == name \in {"EASYJET", "easyJet", "EasyJet"}

normalize_carrier_name(name) ==
    IF name = "" THEN "N/A"
    ELSE IF ContainsEasyjet(name) THEN "easyJet"
    ELSE name

\* server: normalize_carrier_name(carriers[0].get("name", "N/A")) if carriers else "N/A"
\* GUI: carriers[0].get("name", "N/A") if carriers else "N/A"
CarrierName(v, carriers) ==
    IF carriers = <<>> THEN "N/A"
    ELSE IF v = "server" THEN normalize_carrier_name(carriers[1])
    ELSE carriers[1]

(***************************************************************************)
(* Stopovers: one entry per adjacent segment pair.                         *)
(***************************************************************************)
\* layover_min: 0 unless both timestamps are present and parse
LayoverMin(seg_arr, next_dep) ==
    IF Truthy(seg_arr) /\ Truthy(next_dep) /\ Parses(seg_arr) /\ Parses(next_dep)
    THEN TruncDiv60(TotalSeconds(next_dep) - TotalSeconds(seg_arr))
    ELSE 0

\* Variant: a wait of no minutes is written out too.
WaitString_ZeroShown(layover_min) ==
    IF layover_min >= 0
    THEN ToString(layover_min \div 60) \o "h " \o TwoDigits(layover_min % 60) \o "min"
    ELSE ""

\* f"{layover_min // 60}h {layover_min % 60:02d}min" if layover_min > 0 else ""
WaitString(layover_min) ==
    IF layover_min > 0
    THEN ToString(layover_min \div 60) \o "h " \o TwoDigits(layover_min % 60) \o "min"
    ELSE ""

\* the "arrivo"/"partenza" expressions of the entry parse the timestamp again,
\* outside the try block: a non-empty unparseable string raises ValueError
StopoverRaises(seg, next_seg) ==
    \/ (Truthy(seg.arrival) /\ ~Parses(seg.arrival))
    \/ (Truthy(next_seg.departure) /\ ~Parses(next_seg.departure))

StopoverEntry(seg, next_seg) ==
    [citta |-> IF seg.city # Absent THEN seg.city
               ELSE IF seg.name # Absent THEN seg.name ELSE "",
     codice |-> IF seg.displayCode # Absent THEN seg.displayCode ELSE "",
     arrivo |-> IF Truthy(seg.arrival) THEN strftime(seg.arrival) ELSE "",
     partenza |-> IF Truthy(next_seg.departure) THEN strftime(next_seg.departure) ELSE "",
     attesa |-> WaitString(LayoverMin(seg.arrival, next_seg.departure))]

\* stops > 0 and len(segments) > 1
HasStopovers(item) == item.stopCount > 0 /\ Len(item.segments) > 1

StopoversRaise(item) ==
    HasStopovers(item) /\
    \E i \in 1..(Len(item.segments) - 1) :
        StopoverRaises(item.segments[i], item.segments[i + 1])

Stopovers(item) ==
    IF HasStopovers(item)
    THEN [i \in 1..(Len(item.segments) - 1) |->
              StopoverEntry(item.segments[i], item.segments[i + 1])]
    ELSE <<>>

(***************************************************************************)
(* The flight record and its dedup key.                                    *)
(***************************************************************************)
BuildFlight(v, item, origin, city) ==
    [citta |-> IF item.destCity # Absent THEN item.destCity ELSE city.name,
     paese |-> IF item.destCountry # Absent THEN item.destCountry ELSE city.country,
     codice_dest |-> IF item.destCode # Absent THEN item.destCode ELSE city.skyCode,
     codice_origine |-> IF item.origin # Absent THEN item.origin ELSE origin,
     prezzo |-> RawPrice(item),
     partenza |-> strftime(item.departure),
     arrivo |-> strftime(item.arrival),
     durata |-> DurationString(item.durationInMinutes),
     durata_min |-> item.durationInMinutes,
     scali |-> item.stopCount,
     stopovers |-> Stopovers(item),
     compagnia |-> CarrierName(v, item.carriers),
     raw |-> item]

\* server: f"{codice_origine}-{codice_dest}-{partenza}-{carrier_name}"
\* Variant: the server key leaves the carrier out.
ServerKey_NoCarrier(flight) ==
    flight.codice_origine \o "-" \o flight.codice_dest \o "-" \o flight.partenza

ServerKey(flight) ==
    flight.codice_origine \o "-" \o flight.codice_dest \o "-" \o
    flight.partenza \o "-" \o flight.compagnia

\* Variant: the GUI key names the carrier too.
GuiKey_WithCarrier(flight) ==
    flight.codice_origine \o "-" \o flight.codice_dest \o "-" \o
    flight.partenza \o "-" \o ToString(flight.prezzo) \o "-" \o flight.compagnia

\* GUI: f"{codice_origine}-{codice_dest}-{partenza}-{prezzo}"
GuiKey(flight) ==
    flight.codice_origine \o "-" \o flight.codice_dest \o "-" \o
    flight.partenza \o "-" \o ToString(flight.prezzo)

(***************************************************************************)
(* The cross-search ledger.  A builder state b holds the aggregate list    *)
(* voli_trovati, the ledger voli_keys (server: dict key -> 0-based index;  *)
(* GUI: set of keys), the per-response id set voli_visti, the exception    *)
(* that left the builder ("none" if none), the flight cards scheduled by   *)
(* the GUI, and the history of built records (accepted, firstSeen).        *)
(***************************************************************************)
\* Variant: a colliding record always replaces the stored one.
ServerInsert_AlwaysReplace(b, flight) ==
    LET key == flight.codice_origine \o "-" \o flight.codice_dest \o "-" \o
               flight.partenza \o "-" \o flight.compagnia IN
    IF key \in DOMAIN b.voli_keys
    THEN [b EXCEPT !.voli_trovati[b.voli_keys[key] + 1] = flight]
    ELSE [b EXCEPT !.voli_keys = [k \in DOMAIN b.voli_keys \cup {key} |->
                                     IF k = key THEN Len(b.voli_trovati)
                                     ELSE b.voli_keys[k]],
                   !.voli_trovati = Append(b.voli_trovati, flight)]

\* server: replace in place when strictly cheaper, else append and record the index
ServerInsert(b, flight) ==
    LET key == ServerKey(flight) IN
    IF key \in DOMAIN b.voli_keys
    THEN LET existing_idx == b.voli_keys[key] IN
         IF flight.prezzo < b.voli_trovati[existing_idx + 1].prezzo
         THEN [b EXCEPT !.voli_trovati[existing_idx + 1] = flight]
         ELSE b
    ELSE [b EXCEPT !.voli_keys = [k \in DOMAIN b.voli_keys \cup {key} |->
                                     IF k = key THEN Len(b.voli_trovati)
                                     ELSE b.voli_keys[k]],
                   !.voli_trovati = Append(b.voli_trovati, flight)]

\* GUI: first record of a key wins; a flight card is scheduled for it
GuiInsert(b, flight) ==
    LET key == GuiKey(flight) IN
    IF key \notin b.voli_keys
    THEN [b EXCEPT !.voli_keys = b.voli_keys \cup {key},
                   !.voli_trovati = Append(b.voli_trovati, flight),
                   !.cards = Append(b.cards, flight)]
    ELSE b

\* Variant: every record is appended, the ledger is not consulted.
LedgerInsert_AlwaysAppend(v, b, flight) ==
    [b EXCEPT !.voli_trovati = Append(b.voli_trovati, flight)]

LedgerInsert(v, b, flight) ==
    IF v = "server" THEN ServerInsert(b, flight) ELSE GuiInsert(b, flight)

\* The (origin code, destination code, departure time, carrier | price) of a record.
KeyTuple(v, flight) ==
    << flight.codice_origine, flight.codice_dest, flight.partenza,
       IF v = "server" THEN flight.compagnia ELSE ToString(flight.prezzo) >>

\* History of the records handed to the ledger (not program state).
Remember(v, b, flight) ==
    LET kt == KeyTuple(v, flight) IN
    [b EXCEPT !.accepted = @ \cup {[key |-> kt, prezzo |-> flight.prezzo]},
              !.firstSeen = IF \E i \in 1..Len(@) : @[i] = kt THEN @ ELSE Append(@, kt)]

(***************************************************************************)
(* One iteration of the item loop.  arrival_filter is TRUE in the first    *)
(* loop of the server builder only.                                        *)
(***************************************************************************)
Raise(b, exc) == [b EXCEPT !.raised = exc]

Accepts(v, f, arrival_filter, item) ==
    /\ IF v = "server"
       THEN DepartureInWindow(item.departure, f.min_hour, f.max_hour)
       ELSE DepartureHourOk(item.departure, f.min_hour)
    /\ arrival_filter =>
           ArrivalInWindow(item.arrival, f.min_arrival_hour, f.max_arrival_hour)
    /\ SameDayOk(f.same_day, item.departure, item.arrival)
    /\ DirectOk(f.direct_only, item.stopCount)

ProcessItem(v, f, arrival_filter, origin, city, b, item) ==
    IF item.id = Absent THEN Raise(b, "KeyError")
    ELSE IF item.id \in b.voli_visti THEN b
    ELSE LET b1 == [b EXCEPT !.voli_visti = @ \cup {item.id}] IN
         IF ~PriceOk(RawPrice(item), f.max_price) THEN b1
         ELSE IF item.legs = "empty" THEN Raise(b1, "IndexError")
         ELSE IF item.legs = "absent" THEN b1
         ELSE IF ~Truthy(item.departure) \/ ~Truthy(item.arrival) THEN b1
         ELSE IF ~Parses(item.departure) \/ ~Parses(item.arrival)
              THEN Raise(b1, "ValueError")
         ELSE IF ~Accepts(v, f, arrival_filter, item) THEN b1
         ELSE IF StopoversRaise(item) THEN Raise(b1, "ValueError")
         ELSE LET flight == BuildFlight(v, item, origin, city) IN
              Remember(v, LedgerInsert(v, b1, flight), flight)

\* for bucket in buckets: for item in bucket["items"]
RECURSIVE Flatten(_)
Flatten(buckets) ==
    IF buckets = <<>> THEN <<>> ELSE Head(buckets) \o Flatten(Tail(buckets))

\* The loop stops at the first exception; what was written before it stays.
RECURSIVE ItemLoop(_, _, _, _, _, _, _)
ItemLoop(v, f, arrival_filter, origin, city, b, items) ==
    IF items = <<>> \/ b.raised # "none" THEN b
    ELSE ItemLoop(v, f, arrival_filter, origin, city,
                  ProcessItem(v, f, arrival_filter, origin, city, b, Head(items)),
                  Tail(items))

\* Variant: the id set survives from one response to the next.
StaleVisti == seenIds

\* voli_visti = set()
FreshVisti == {}

\* server: two loops over the same response, the second without the arrival window
process_flight_response(f, origin, city, b, buckets) ==
    LET first == ItemLoop("server", f, TRUE, origin, city,
                          [b EXCEPT !.voli_visti = FreshVisti, !.raised = "none"],
                          Flatten(buckets))
    IN  ItemLoop("server", f, FALSE, origin, city,
                 [first EXCEPT !.voli_visti = FreshVisti], Flatten(buckets))

\* GUI: one loop
gui_process_flight_response(f, origin, city, b, buckets) ==
    ItemLoop("gui", f, FALSE, origin, city,
             [b EXCEPT !.voli_visti = FreshVisti, !.raised = "none"], Flatten(buckets))

(***************************************************************************)
(* Selected locations of a request: a string, or a dict with code / skyId, *)
(* entityType and title.                                                   *)
(***************************************************************************)
StrItem(code) ==
    [kind |-> "str", code |-> code, skyId |-> Absent, entity_type |-> "", title |-> ""]
DictItem(code, skyId) ==
    [kind |-> "dict", code |-> code, skyId |-> skyId, entity_type |-> "", title |-> ""]

\* A country picked from the suggestions: {"code", "entityType": "COUNTRY", "title"}
CountryItem(code, title) ==
    [kind |-> "dict", code |-> code, skyId |-> Absent, entity_type |-> "COUNTRY",
     title |-> title]

\* code = item.get("code") or item.get("skyId")
ItemCode(item) ==
    IF item.kind = "str" THEN item.code
    ELSE IF item.code # Absent /\ item.code # "" THEN item.code
    ELSE item.skyId

\* {"code": code, "entity_type": entity_type, "title": title}
Location(code, entity_type, title) ==
    [code |-> code, entity_type |-> entity_type, title |-> title]

RECURSIVE normalize_selected_locations(_)
normalize_selected_locations(items) ==
    IF items = << >> THEN << >>
    ELSE LET item == Head(items)
             rest == normalize_selected_locations(Tail(items)) IN
         IF item.kind = "dict" /\ ItemCode(item) \in {Absent, ""}
         THEN rest
         ELSE << Location(ItemCode(item), item.entity_type, item.title) >> \o rest

\* codes in order of first occurrence, empty codes dropped
RECURSIVE DedupeFrom(_, _)
DedupeFrom(items, codes) ==
    IF items = << >> THEN codes
    ELSE LET code == Head(items).code IN
         DedupeFrom(Tail(items),
                    IF code = "" \/ \E i \in 1..Len(codes) : codes[i] = code
                    THEN codes ELSE Append(codes, code))

dedupe_codes(items) == DedupeFrom(items, << >>)

\* The Airport the backend has under a code.
Place(code) ==
    [title |-> IF code = "LON" THEN "Londra" ELSE code, skyId |-> code]

(***************************************************************************)
(* One search in specific-destination mode: the origin x destination loop  *)
(* fetches one raw response per pair and feeds it to the builder, all      *)
(* pairs sharing one aggregate list and ledger.                            *)
(***************************************************************************)
Variants == {"server", "gui"}

\* The filter parameters of one request: each flag is set in one request and
\* clear in the other.
Filters ==
    { f \in [max_price : {MAX_PRICE}, min_hour : {MIN_DEPARTURE_HOUR}, max_hour : {23},
             min_arrival_hour : {19}, max_arrival_hour : {MAX_ARRIVAL_HOUR},
             direct_only : BOOLEAN, same_day : BOOLEAN] :
        f.direct_only # f.same_day }

origin_list == << "VCE", "TSF" >>

\* dest_list = [airport_from_code(scanner, code) for code in dest_codes]
dest_list ==
    [i \in 1..Len(dedupe_codes(dest_items)) |-> Place(dedupe_codes(dest_items)[i])]

\* Variant: every pair is queried from the first origin.
Pairs_FirstOrigin ==
    [i \in 1..(Len(origin_list) * Len(dest_list)) |->
        [origin |-> origin_list[1],
         dest |-> dest_list[((i - 1) % Len(dest_list)) + 1]]]

\* for origin in origin_list: for dest in dest_list
Pairs ==
    [i \in 1..(Len(origin_list) * Len(dest_list)) |->
        [origin |-> origin_list[((i - 1) \div Len(dest_list)) + 1],
         dest |-> dest_list[((i - 1) % Len(dest_list)) + 1]]]

\* city_info = {"name": dest.title, "skyCode": dest.skyId, "country": ""}
CityInfo(dest) == [name |-> dest.title, skyCode |-> dest.skyId, country |-> ""]

ItemSeqs == UNION { [1..n -> ItemPool] : n \in 0..MaxItems }

\* itineraries.buckets of a raw response: one bucket, or a first bucket of
\* one item followed by a bucket with the rest.
Responses ==
    { << its >> : its \in ItemSeqs } \cup
    { << SubSeq(its, 1, 1), SubSeq(its, 2, Len(its)) >> :
         its \in { s \in ItemSeqs : Len(s) >= 2 } }

\* Nothing has been sent back to the caller yet.
NoResponse == [kind |-> "none", message |-> "", flights |-> << >>]

\* The loop is driven directly: no request, no expansion, no event stream.
SearchIdle ==
    /\ entry = IF variant = "server" THEN "api_search" ELSE "gui"
    /\ payload = << >>
    /\ search_everywhere = FALSE
    /\ idx = 0
    /\ all_countries = << >>
    /\ all_cities = << >>
    /\ events = << >>
    /\ response = NoResponse
    /\ calls = << >>
    /\ dest_items = << Location("LON", "", "") >>
    /\ outputs = << >>
    /\ GuiIdle

\* voli_trovati = []; voli_keys = {} (server) / set() (GUI)
Init ==
    /\ variant \in Variants
    /\ flt \in Filters
    /\ pc = "query"
    /\ pair = 1
    /\ flight_response = << >>
    /\ voli_trovati = << >>
    /\ voli_keys = IF variant = "server" THEN << >> ELSE {}
    /\ raised = "none"
    /\ cards = << >>
    /\ accepted = {}
    /\ firstSeen = << >>
    /\ seenIds = {}
    /\ SearchIdle

Builder ==
    [voli_trovati |-> voli_trovati, voli_keys |-> voli_keys, voli_visti |-> {},
     raised |-> raised, cards |-> cards, accepted |-> accepted, firstSeen |-> firstSeen]

\* flight_response = scanner.get_flight_prices(origin, destination, depart_date)
GetFlightPrices ==
    /\ pc = "query"
    /\ \E r \in Responses : flight_response' = r
    /\ pc' = "process"
    /\ UNCHANGED << variant, flt, pair, voli_trovati, voli_keys, raised, cards,
                    accepted, firstSeen, seenIds >>
    /\ UNCHANGED searchVars
    /\ UNCHANGED << dest_items, outputs, guiVars >>

Store(b) ==
    /\ voli_trovati' = b.voli_trovati
    /\ voli_keys' = b.voli_keys
    /\ raised' = b.raised
    /\ cards' = b.cards
    /\ accepted' = b.accepted
    /\ firstSeen' = b.firstSeen

ProcessFlightResponse ==
    /\ pc = "process"
    /\ variant = "server"
    /\ Store(process_flight_response(flt, Pairs[pair].origin, CityInfo(Pairs[pair].dest),
                                     Builder, flight_response))
    /\ pc' = "returned"
    /\ UNCHANGED << variant, flt, pair, flight_response, seenIds >>
    /\ UNCHANGED searchVars
    /\ UNCHANGED << dest_items, outputs, guiVars >>

GuiProcessFlightResponse ==
    /\ pc = "process"
    /\ variant = "gui"
    /\ Store(gui_process_flight_response(flt, Pairs[pair].origin,
                                         CityInfo(Pairs[pair].dest),
                                         Builder, flight_response))
    /\ pc' = "returned"
    /\ UNCHANGED << variant, flt, pair, flight_response, seenIds >>
    /\ UNCHANGED searchVars
    /\ UNCHANGED << dest_items, outputs, guiVars >>

ResponseIds == { Flatten(flight_response)[i].id : i \in 1..Len(Flatten(flight_response)) }

\* The loop goes on to the next pair: always in the server when the builder
\* returned, and in the GUI also after an exception, which the loop's
\* except clause swallows (except: continue).
NextPair ==
    /\ pc = "returned"
    /\ raised = "none" \/ variant = "gui"
    /\ pair' = pair + 1
    /\ pc' = IF pair + 1 > Len(Pairs) THEN "done" ELSE "query"
    /\ seenIds' = seenIds \cup ResponseIds
    /\ flight_response' = << >>
    /\ raised' = "none"
    /\ UNCHANGED << variant, flt, voli_trovati, voli_keys, cards,
                    accepted, firstSeen >>
    /\ UNCHANGED searchVars
    /\ UNCHANGED << dest_items, outputs, guiVars >>

\* server: nothing catches the exception; it leaves the search function.
SearchFails ==
    /\ pc = "returned"
    /\ variant = "server"
    /\ raised # "none"
    /\ pc' = "failed"
    /\ UNCHANGED << variant, flt, pair, flight_response, voli_trovati, voli_keys,
                    raised, cards, accepted, firstSeen, seenIds >>
    /\ UNCHANGED searchVars
    /\ UNCHANGED << dest_items, outputs, guiVars >>

Next ==
    \/ GetFlightPrices
    \/ ProcessFlightResponse
    \/ GuiProcessFlightResponse
    \/ NextPair
    \/ SearchFails

Spec == Init /\ [][Next]_vars

(***************************************************************************)
(* Properties of the Flight Record Builder and the ledger.                 *)
(***************************************************************************)
Records == { voli_trovati[i] : i \in 1..Len(voli_trovati) }

\* The items of the response in hand, in loop order.
ResponseItems == Flatten(flight_response)

\* The item is the first of its id in the response in hand.
FirstOfId(i) == \A j \in 1..(i - 1) : ResponseItems[j].id # ResponseItems[i].id

\* The item has an id, a leg and two timestamps that parse.
WellFormed(item) ==
    /\ item.id # Absent
    /\ item.legs = "present"
    /\ item.departure.kind = "ok"
    /\ item.arrival.kind = "ok"

\* The item passes the price ceiling and the filters of the variant's last loop.
PassesFilters(item) ==
    /\ RawPrice(item) <= flt.max_price
    /\ Accepts(variant, flt, FALSE, item)

\* The record the builder makes of an item of the current pair.
RecordOf(item) ==
    BuildFlight(variant, item, Pairs[pair].origin, CityInfo(Pairs[pair].dest))

\* The aggregate list holds the item's key at a price no higher than the item's.
Represented(item, list) ==
    \E k \in 1..Len(list) :
        /\ KeyTuple(variant, list[k]) = KeyTuple(variant, RecordOf(item))
        /\ list[k].prezzo <= RawPrice(item)

\* C1: every record of the aggregate list has a price <= the ceiling, and no
\* record stems from an item priced above the ceiling, merges included.
C1_PriceWithinCeiling ==
    \A r \in Records :
        /\ r.prezzo <= flt.max_price
        /\ r.raw.price # << >> /\ r.raw.price[1] <= flt.max_price

\* C1 witness: an over-ceiling item was fed after a merge replaced an entry.
C1_Witness ==
    /\ pc = "returned"
    /\ variant = "server"
    /\ \E i \in 1..Len(ResponseItems) : RawPrice(ResponseItems[i]) > flt.max_price
    /\ \E a1 \in accepted : \E a2 \in accepted :
          /\ a1.key = a2.key /\ a1.prezzo < a2.prezzo
          /\ \E r \in Records : r.prezzo = a1.prezzo

\* The lowest price handed to the ledger under a key.
MinAccepted(kt) ==
    CHOOSE p \in { a.prezzo : a \in { x \in accepted : x.key = kt } } :
        \A a \in accepted : a.key = kt => p <= a.prezzo

\* The position of a key in the order of first hand-over.
FirstPosition(kt) == CHOOSE i \in 1..Len(firstSeen) : firstSeen[i] = kt

\* C2: in the server ledger each key handed over has exactly one record in
\* the aggregate list, priced at the minimum handed over under that key, at
\* the index where the key's first record was appended.
C2_OneRecordPerKeyAtMinPrice ==
    variant = "server" =>
        /\ Len(voli_trovati) = Len(firstSeen)
        /\ \A a \in accepted :
              /\ Cardinality({ i \in 1..Len(voli_trovati) :
                                 KeyTuple("server", voli_trovati[i]) = a.key }) = 1
              /\ KeyTuple("server", voli_trovati[FirstPosition(a.key)]) = a.key
              /\ voli_trovati[FirstPosition(a.key)].prezzo = MinAccepted(a.key)

\* C2 witness: a cheaper record replaced the one in the first slot after a
\* second key had been appended behind it.
C2_Witness ==
    /\ variant = "server"
    /\ Len(voli_trovati) >= 2
    /\ \E a \in accepted :
          /\ a.key = KeyTuple("server", voli_trovati[1])
          /\ a.prezzo > voli_trovati[1].prezzo
    /\ pair = 2 /\ pc = "returned"
    /\ \E i \in 1..Len(ResponseItems) : voli_trovati[1].raw = ResponseItems[i]

\* C3: no two records of the aggregate list share the dedup key: (origin,
\* destination, departure time, carrier) in the server, (origin, destination,
\* departure time, price) in the GUI.
C3_KeysUnique ==
    \A i \in 1..Len(voli_trovati) : \A j \in 1..Len(voli_trovati) :
        i # j =>
            << voli_trovati[i].codice_origine, voli_trovati[i].codice_dest,
               voli_trovati[i].partenza,
               IF variant = "server" THEN voli_trovati[i].compagnia
               ELSE ToString(voli_trovati[i].prezzo) >>
            # << voli_trovati[j].codice_origine, voli_trovati[j].codice_dest,
                 voli_trovati[j].partenza,
                 IF variant = "server" THEN voli_trovati[j].compagnia
                 ELSE ToString(voli_trovati[j].prezzo) >>

\* C3 witness: in the GUI an item of another carrier collided with a stored
\* record and was dropped, the list holding two records.
C3_Witness ==
    /\ variant = "gui"
    /\ pc = "returned"
    /\ raised = "none"
    /\ Len(voli_trovati) >= 2
    /\ \E i \in 1..Len(ResponseItems) : \E r \in Records :
          /\ WellFormed(ResponseItems[i]) /\ PassesFilters(ResponseItems[i])
          /\ FirstOfId(i)
          /\ KeyTuple("gui", RecordOf(ResponseItems[i])) = KeyTuple("gui", r)
          /\ r.raw # ResponseItems[i]
          /\ r.compagnia # RecordOf(ResponseItems[i]).compagnia

\* C4: in the server every record of the aggregate list arrives inside the
\* inclusive window [min_arrival_hour*60, max_arrival_hour*60].
C4_ArrivalInsideWindow ==
    variant = "server" =>
        \A r \in Records :
            /\ flt.min_arrival_hour * 60 <= r.raw.arrival.hour * 60 + r.raw.arrival.minute
            /\ r.raw.arrival.hour * 60 + r.raw.arrival.minute <= flt.max_arrival_hour * 60

\* C5: in the server every record departs at a minute of day d with
\* min_hour*60 <= d <= max_hour*60; in both variants it departs at an hour
\* >= min_hour.
C5_DepartureInsideWindow ==
    \A r \in Records :
        /\ r.raw.departure.hour >= flt.min_hour
        /\ variant = "server" =>
              /\ flt.min_hour * 60 <= r.raw.departure.hour * 60 + r.raw.departure.minute
              /\ r.raw.departure.hour * 60 + r.raw.departure.minute <= flt.max_hour * 60

\* C5 witness: the server was fed an item departing before the window and
\* one departing after it, the list holding a record.
C5_Witness ==
    /\ variant = "server"
    /\ pc = "returned"
    /\ raised = "none"
    /\ Len(voli_trovati) >= 1
    /\ \E i \in 1..Len(ResponseItems) :
          /\ WellFormed(ResponseItems[i])
          /\ MinuteOfDay(ResponseItems[i].departure) < flt.min_hour * 60
    /\ \E i \in 1..Len(ResponseItems) :
          /\ WellFormed(ResponseItems[i])
          /\ MinuteOfDay(ResponseItems[i].departure) > flt.max_hour * 60

\* C6: with the same-day flag set, every record of the aggregate list stems
\* from an item that arrives on its departure date.
C6_SameDayArrival ==
    flt.same_day =>
        \A r \in Records : r.raw.arrival.date = r.raw.departure.date

\* C6 witness: with the flag set an item arriving the next day was fed and
\* the list holds a record.
C6_Witness ==
    /\ flt.same_day
    /\ pc = "returned"
    /\ raised = "none"
    /\ Len(voli_trovati) >= 1
    /\ \E i \in 1..Len(ResponseItems) :
          /\ WellFormed(ResponseItems[i])
          /\ FirstOfId(i)
          /\ ResponseItems[i].arrival.date # ResponseItems[i].departure.date

\* C7: with the direct-only flag set, every record of the aggregate list has
\* stop count 0.
C7_DirectOnly ==
    flt.direct_only => \A r \in Records : r.scali = 0 /\ r.raw.stopCount = 0

\* C7 witness: with the flag set an item with a stop was fed and the list
\* holds a record.
C7_Witness ==
    /\ flt.direct_only
    /\ pc = "returned"
    /\ raised = "none"
    /\ Len(voli_trovati) >= 1
    /\ \E i \in 1..Len(ResponseItems) :
          /\ WellFormed(ResponseItems[i])
          /\ FirstOfId(i)
          /\ ResponseItems[i].stopCount > 0

\* The positions of the aggregate list that a builder call wrote.
Written == { i \in 1..Len(voli_trovati') :
                i > Len(voli_trovati) \/ voli_trovati'[i] # voli_trovati[i] }

\* C8: one builder call writes at most one record per itinerary id of its
\* response, and the ids of earlier responses do not count as seen: a
\* well-formed item that passes the filters and is the first of its id in
\* this response has its key in the list after a call that raised nothing.
C8_OneRecordPerIdPerResponse ==
    [][ pc = "process" =>
          /\ \A id \in ResponseIds :
                Cardinality({ i \in Written : voli_trovati'[i].raw.id = id }) <= 1
          /\ raised' = "none" =>
                \A i \in 1..Len(ResponseItems) :
                    (/\ WellFormed(ResponseItems[i])
                     /\ PassesFilters(ResponseItems[i])
                     /\ FirstOfId(i))
                    => Represented(ResponseItems[i], voli_trovati') ]_vars

\* C8 witness: a response repeats an id that an earlier response carried;
\* its first item was recorded, the repeat was not.
C8_Witness ==
    /\ pc = "returned"
    /\ raised = "none"
    /\ \E i \in 1..Len(ResponseItems) : \E j \in 1..Len(ResponseItems) :
          /\ i < j
          /\ ResponseItems[i].id = ResponseItems[j].id
          /\ ResponseItems[i].id \in seenIds
          /\ ResponseItems[i] # ResponseItems[j]
          /\ \E r \in Records : r.raw = ResponseItems[i]
          /\ \A r \in Records : r.raw # ResponseItems[j]

\* C9: a malformed item (missing id, empty legs list, unparseable departure
\* or arrival) is only skipped: no exception leaves the builder and every
\* other item of the response is processed.
C9_MalformedItemOnlySkipped ==
    pc = "returned" =>
        /\ raised = "none"
        /\ \A i \in 1..Len(ResponseItems) :
              (/\ WellFormed(ResponseItems[i])
               /\ PassesFilters(ResponseItems[i])
               /\ FirstOfId(i)
               /\ ~StopoversRaise(ResponseItems[i]))
              => Represented(ResponseItems[i], voli_trovati)

\* A segment arrival or next-segment departure of the item is unparseable.
MalformedStopover(item) ==
    /\ item.stopCount > 0
    /\ Len(item.segments) > 1
    /\ \E k \in 1..(Len(item.segments) - 1) :
          \/ item.segments[k].arrival.kind = "bad"
          \/ item.segments[k + 1].departure.kind = "bad"

\* C10: a malformed stopover timestamp is tolerated: when every item of the
\* response is otherwise well formed no exception is raised, and an item with
\* such a stopover that passes the filters still yields its record.
C10_MalformedStopoverTolerated ==
    (/\ pc = "returned"
     /\ \A i \in 1..Len(ResponseItems) : WellFormed(ResponseItems[i]))
    => /\ raised = "none"
       /\ \A i \in 1..Len(ResponseItems) :
             (/\ MalformedStopover(ResponseItems[i])
              /\ PassesFilters(ResponseItems[i])
              /\ FirstOfId(i))
             => Represented(ResponseItems[i], voli_trovati)

(***************************************************************************)
(* The backend client as the orchestrator sees it: a call returns a value  *)
(* or raises.  An outcome is [raised, result]; calls logs every call with   *)
(* the place of the caller (at: the loop, step: its iteration).            *)
(***************************************************************************)
\* The iteration the search is in: of the pair loop, or of an expander loop.
Step == IF pc = "pairs" THEN pair ELSE idx
Airport(title, skyId) == [title |-> title, skyId |-> skyId]

\* SpecialTypes.EVERYWHERE
EVERYWHERE == Airport("", "EVERYWHERE")

Returns(result) == [raised |-> FALSE, result |-> result]
Raises == [raised |-> TRUE, result |-> << >>]

\* scanner.get_airport_by_code(code)
ResolveCall(code, out) ==
    [op |-> "get_airport_by_code", at |-> pc, step |-> Step, origin |-> "", query |-> code,
     destination |-> Airport("", ""), raised |-> out.raised, result |-> out.result]

\* scanner.search_airports(query)
LookupCall(query, out) ==
    [op |-> "search_airports", at |-> pc, step |-> Step, origin |-> "", query |-> query,
     destination |-> Airport("", ""), raised |-> out.raised, result |-> out.result]

\* scanner.get_flight_prices(origin=..., destination=..., depart_date=...)
FlightCall(origin, destination, out) ==
    [op |-> "get_flight_prices", at |-> pc, step |-> Step, origin |-> origin, query |-> "",
     destination |-> destination, raised |-> out.raised, result |-> out.result]

(***************************************************************************)
(* Destination Expander: the rule of both stages.  A result of an          *)
(* everywhereDestination / countryDestination response is                  *)
(* [name, skyCode, rawPrice], a missing or empty name or code being        *)
(* Absent and a missing price << >>.                                       *)
(***************************************************************************)
Result(name, skyCode, rawPrice) == [name |-> name, skyCode |-> skyCode, rawPrice |-> rawPrice]

\* content.get("flightQuotes", {}).get("cheapest", {}).get("rawPrice", 999999)
QuotePrice(r) == IF r.rawPrice = << >> THEN MissingPrice ELSE r.rawPrice[1]

\* location.get("name") and location.get("skyCode") and price and price <= max_price
Qualifies(r, max_price) ==
    /\ r.name # Absent
    /\ r.skyCode # Absent
    /\ QuotePrice(r) # 0
    /\ QuotePrice(r) <= max_price

\* sky_code in all_countries / all_cities
HasCode(all, sky_code) == \E i \in 1..Len(all) : all[i].skyCode = sky_code

\* if sky_code not in all_countries: all_countries[sky_code] = {name, skyCode}
AddCountry(all, r) ==
    IF HasCode(all, r.skyCode) THEN all
    ELSE Append(all, [name |-> r.name, skyCode |-> r.skyCode])

\* for r in response.json["everywhereDestination"]["results"]
RECURSIVE CollectCountries(_, _, _)
CollectCountries(all, results, max_price) ==
    IF results = << >> THEN all
    ELSE CollectCountries(IF Qualifies(Head(results), max_price)
                          THEN AddCountry(all, Head(results)) ELSE all,
                          Tail(results), max_price)

\* Variant: a later country overwrites the tag of a city.
AddCity_LastWins(all, r, country) ==
    IF HasCode(all, r.skyCode)
    THEN [i \in 1..Len(all) |-> IF all[i].skyCode = r.skyCode
                                THEN [name |-> r.name, skyCode |-> r.skyCode,
                                      country |-> country.name]
                                ELSE all[i]]
    ELSE Append(all, [name |-> r.name, skyCode |-> r.skyCode, country |-> country.name])

\* if sky_code not in all_cities: all_cities[sky_code] = {name, skyCode, country}
AddCity(all, r, country) ==
    IF HasCode(all, r.skyCode) THEN all
    ELSE Append(all, [name |-> r.name, skyCode |-> r.skyCode, country |-> country.name])

\* for r in country_response.json["countryDestination"]["results"]
RECURSIVE CollectCities(_, _, _, _)
CollectCities(all, results, country, max_price) ==
    IF results = << >> THEN all
    ELSE CollectCities(IF Qualifies(Head(results), max_price)
                       THEN AddCity(all, Head(results), country) ELSE all,
                       Tail(results), country, max_price)

\* next((a for a in country_airports if a.skyId == country["skyCode"]), country_airports[0])
CountryEntity(country_airports, country) ==
    IF \E i \in 1..Len(country_airports) : country_airports[i].skyId = country.skyCode
    THEN country_airports[CHOOSE i \in 1..Len(country_airports) :
            /\ country_airports[i].skyId = country.skyCode
            /\ \A j \in 1..(i - 1) : country_airports[j].skyId # country.skyCode]
    ELSE country_airports[1]

(***************************************************************************)
(* The request of api_search / api_search_stream.  A JSON value of the     *)
(* payload is absent, null, a number or a text; a selected location is a   *)
(* string or a dict.                                                       *)
(***************************************************************************)
JAbsent == [kind |-> "absent", num |-> 0, text |-> ""]
JNull == [kind |-> "null", num |-> 0, text |-> ""]
JNum(n) == [kind |-> "num", num |-> n, text |-> ""]
JText(t) == [kind |-> "text", num |-> 0, text |-> t]

\* payload.get(key, default)
Get(v, default) == IF v.kind = "absent" THEN default ELSE v

\* datetime.datetime.strptime(date_str, "%d/%m/%Y"): the date, or TypeError
\* (not a string) / ValueError (no match)
parse_date(v) ==
    IF v.kind # "text" THEN [ok |-> FALSE, date |-> 0]
    ELSE IF v.text = "06/02/2026" THEN [ok |-> TRUE, date |-> 1]
    ELSE [ok |-> FALSE, date |-> 0]

\* float(x): a number, the text of a number, or TypeError / ValueError
float(v) ==
    IF v.kind = "num" THEN [ok |-> TRUE, num |-> v.num]
    ELSE IF v.kind = "text" /\ v.text = "100" THEN [ok |-> TRUE, num |-> 100]
    ELSE IF v.kind = "text" /\ v.text = "18" THEN [ok |-> TRUE, num |-> 18]
    ELSE [ok |-> FALSE, num |-> 0]

\* int(x): like float(x) on the values of the payloads (integers and texts)
int(v) == float(v)

\* origin_codes = dedupe_codes(normalize_selected_locations(payload.get("origins", [])))
OriginCodes(p) == dedupe_codes(normalize_selected_locations(p.origins))
DestCodes(p) == dedupe_codes(normalize_selected_locations(p.destinations))

OriginsMessage == "Seleziona almeno un aeroporto di partenza."
ValuesMessage == "Controlla i valori inseriti. Formato data: GG/MM/AAAA."

\* Variant: the emptiness of the origin list is not tested.
NoOrigins_Untested(origin_codes) == FALSE

\* if not origin_codes
NoOrigins(origin_codes) == origin_codes = << >>

\* try: parse_date(...); float(...); int(...) x 4  except (TypeError, ValueError)
ValuesParse(p) ==
    /\ parse_date(Get(p.depart_date, JText(""))).ok
    /\ float(Get(p.max_price, JNum(0))).ok
    /\ int(Get(p.min_hour, JNum(0))).ok
    /\ int(Get(p.max_hour, JNum(24))).ok
    /\ int(Get(p.min_arrival_hour, JNum(0))).ok
    /\ int(Get(p.max_arrival_hour, JNum(24))).ok

\* The error message of the request, "" when it is accepted.
ValidationError(p) ==
    IF NoOrigins(OriginCodes(p)) THEN OriginsMessage
    ELSE IF ~ValuesParse(p) THEN ValuesMessage
    ELSE ""

\* The filter parameters of an accepted request.
RequestFilters(p) ==
    [max_price |-> float(Get(p.max_price, JNum(0))).num,
     min_hour |-> int(Get(p.min_hour, JNum(0))).num,
     max_hour |-> int(Get(p.max_hour, JNum(24))).num,
     min_arrival_hour |-> int(Get(p.min_arrival_hour, JNum(0))).num,
     max_arrival_hour |-> int(Get(p.max_arrival_hour, JNum(24))).num,
     direct_only |-> p.direct_only,
     same_day |-> p.same_day]

\* Variant: the destination codes have no say in the mode.
SearchEverywhere_FlagOnly(p) == p.search_everywhere

\* payload.get("search_everywhere", False) or ("EVERYWHERE" in dest_codes or not dest_codes)
SearchEverywhere(p) ==
    \/ p.search_everywhere
    \/ \E i \in 1..Len(DestCodes(p)) : DestCodes(p)[i] = "EVERYWHERE"
    \/ DestCodes(p) = << >>

\* api_search 1078-1110 / api_search_stream 732-764: the request is rejected
\* with status 400, or accepted
Request(e) ==
    /\ pc = "request"
    /\ response.kind = "none"
    /\ entry = e
    /\ IF ValidationError(payload) # ""
       THEN /\ response' = [kind |-> "invalid", message |-> ValidationError(payload),
                            flights |-> << >>]
            /\ UNCHANGED << pc, flt, search_everywhere >>
       ELSE /\ pc' = "start"
            /\ flt' = RequestFilters(payload)
            /\ search_everywhere' = SearchEverywhere(payload)
            /\ UNCHANGED response
    /\ UNCHANGED << variant, pair, flight_response, voli_trovati, voli_keys,
                    raised, cards, accepted, firstSeen, seenIds >>
    /\ UNCHANGED << entry, payload, idx, all_countries, all_cities, events, calls >>
    /\ UNCHANGED << dest_items, outputs, guiVars >>

ApiSearch == Request("api_search")
ApiSearchStream == Request("api_search_stream")

\* The JSON body: origins, destinations, search_everywhere, depart_date,
\* max_price, min_hour, max_arrival_hour; the other keys (sort among them)
\* are left out.
Payload(origins, destinations, everywhere, depart_date, max_price, min_hour, max_arrival_hour) ==
    [origins |-> origins, destinations |-> destinations,
     search_everywhere |-> everywhere, depart_date |-> depart_date,
     max_price |-> max_price, min_hour |-> min_hour, max_hour |-> JAbsent,
     min_arrival_hour |-> JAbsent, max_arrival_hour |-> max_arrival_hour,
     direct_only |-> FALSE, same_day |-> TRUE, sort |-> JAbsent]

OriginLists ==
    { << >>, << StrItem("") >>, << DictItem(Absent, Absent) >>, << StrItem("VCE") >>,
      << StrItem("VCE"), DictItem("VCE", Absent) >>, << StrItem("VCE"), DictItem("", "TSF") >> }

Payloads ==
    { Payload(o, d, FALSE, date, price, hour, arr) :
        o \in OriginLists,
        d \in { << >>, << DictItem("LON", Absent) >> },
        date \in { JAbsent, JNull, JText("06/02/2026"), JText("2026-02-06") },
        price \in { JAbsent, JNull, JNum(100), JText("100"), JText("abc") },
        hour \in { JAbsent, JNum(18), JText("18"), JText("sera") },
        arr \in { JAbsent, JText("notte") } }

\* The two accepted requests of a whole search: everywhere, and to London.
SearchRequests ==
    { Payload(<< StrItem("VCE"), StrItem("TSF") >>, d, FALSE,
              JText("06/02/2026"), JNum(MAX_PRICE), JNum(MIN_DEPARTURE_HOUR), JAbsent) :
        d \in { << >>, << DictItem("LON", Absent) >> } }

(***************************************************************************)
(* sort_flights: sorted() is stable, so the result is built by inserting   *)
(* each record, in input order, after the records whose key is not larger. *)
(***************************************************************************)
\* The "HH:MM" strings of the departures the pools hold, in the order of
\* Python's string comparison.
Clock == << "17:59", "18:00", "18:30", "19:00", "23:30" >>

StrRank(t) == CHOOSE i \in 1..Len(Clock) : Clock[i] = t

\* Variant: an unknown sort key sorts by duration.
SortKey_UnknownIsDuration(sort_key, f) ==
    IF sort_key = JText("orario") THEN StrRank(f.partenza)
    ELSE IF sort_key = JText("prezzo") THEN f.prezzo
    ELSE f.durata_min

\* key=lambda f: f.get("partenza", "00:00") / f.get("durata_min", 0) / f.get("prezzo", 0)
SortKey(sort_key, f) ==
    IF sort_key = JText("orario") THEN StrRank(f.partenza)
    ELSE IF sort_key = JText("durata") THEN f.durata_min
    ELSE f.prezzo

\* Variant: a record goes before the records of equal key.
RECURSIVE InsertSorted_BeforeEqual(_, _, _)
InsertSorted_BeforeEqual(done, f, sort_key) ==
    IF done = << >> THEN << f >>
    ELSE IF SortKey(sort_key, Head(done)) < SortKey(sort_key, f)
         THEN << Head(done) >> \o InsertSorted_BeforeEqual(Tail(done), f, sort_key)
         ELSE << f >> \o done

RECURSIVE InsertSorted(_, _, _)
InsertSorted(done, f, sort_key) ==
    IF done = << >> THEN << f >>
    ELSE IF SortKey(sort_key, Head(done)) <= SortKey(sort_key, f)
         THEN << Head(done) >> \o InsertSorted(Tail(done), f, sort_key)
         ELSE << f >> \o done

RECURSIVE sort_flights(_, _)
sort_flights(flights, sort_key) ==
    IF flights = << >> THEN << >>
    ELSE InsertSorted(sort_flights(SubSeq(flights, 1, Len(flights) - 1), sort_key),
                      flights[Len(flights)], sort_key)

(***************************************************************************)
(* Search Orchestrator.  One step is one iteration of a loop of            *)
(* search_everywhere_multi / search_specific_destinations (api_search),    *)
(* of generate (api_search_stream) or of the GUI search thread: the        *)
(* backend calls of the iteration, with outcomes drawn from the pools      *)
(* handed to the step, and everything the iteration does with them.        *)
(***************************************************************************)
Entries == {"api_search", "api_search_stream", "gui"}

\* sse_event({"type": ..., "current": ..., "total": ..., "found"/"count": ...})
Event(type, current, total, count) ==
    [type |-> type, current |-> current, total |-> total, count |-> count,
     flights |-> << >>]

\* sse_event({"type": ..., "flights": ..., "count": ...})
FlightsEvent(type, count, flights) ==
    [type |-> type, current |-> 0, total |-> 0, count |-> count, flights |-> flights]

\* yield: only generate() emits events
Yield(evs) == IF entry = "api_search_stream" THEN events \o evs ELSE events

\* except: continue around the body of every GUI loop; the server has none
Swallows == entry = "gui"

\* The search is at a place and has not ended.
At(place) == pc = place /\ response.kind = "none"

\* An exception leaves the search where it is: api_search answers 500, the
\* event stream of generate() breaks off.
Crash(exc) ==
    /\ pc' = pc
    /\ raised' = exc
    /\ response' = [kind |-> "crash", message |-> exc, flights |-> << >>]

\* [airport_from_code(scanner, code) for code in codes]: the first k codes
\* resolve, the next one (if any) raises GenericError.
ResolveCalls(codes, k) ==
    [i \in 1..(IF k < Len(codes) THEN k + 1 ELSE k) |->
        ResolveCall(codes[i], IF i <= k THEN Returns(<< Place(codes[i]) >>)
                              ELSE Raises)]

\* Variant: the code that does not resolve is skipped and the search goes on.
ResolutionError_Skipped ==
    /\ pc' = "pairs"
    /\ UNCHANGED << response, events >>

\* except GenericError as exc: return jsonify({"error": str(exc)}), 400
\*                             / yield sse_event({"type": "error", ...}); return
ResolutionError ==
    /\ pc' = pc
    /\ response' = [kind |-> "error", message |-> "GenericError", flights |-> << >>]
    /\ events' = Yield(<< Event("error", 0, 0, 0) >>)

\* api_search 1112-1117, generate 767-782
ResolveOrigins ==
    /\ At("start")
    /\ entry # "gui"
    /\ \E k \in 0..Len(OriginCodes(payload)) :
          /\ calls' = calls \o ResolveCalls(OriginCodes(payload), k)
          /\ IF k < Len(OriginCodes(payload))
             THEN ResolutionError
             ELSE /\ pc' = IF search_everywhere THEN "world_scan" ELSE "resolve_dests"
                  /\ events' = Yield(<< Event("progress", 0, 0, 0) >>)
                  /\ UNCHANGED response
    /\ idx' = 1
    /\ UNCHANGED << variant, flt, pair, flight_response, voli_trovati, voli_keys,
                    raised, cards, accepted, firstSeen, seenIds >>
    /\ UNCHANGED << entry, payload, search_everywhere, all_countries, all_cities >>
    /\ UNCHANGED << dest_items, outputs, guiVars >>

\* FlightSearchApp.search_flights 997-1018: the origins are Airport objects already
SearchFlights ==
    /\ At("start")
    /\ entry = "gui"
    /\ pc' = IF search_everywhere THEN "world_scan" ELSE "specific"
    /\ idx' = 1
    /\ UNCHANGED << variant, flt, pair, flight_response, voli_trovati, voli_keys,
                    raised, cards, accepted, firstSeen, seenIds >>
    /\ UNCHANGED << entry, payload, search_everywhere, all_countries, all_cities,
                    events, response, calls >>
    /\ UNCHANGED << dest_items, outputs, guiVars >>

\* Stage A, one origin: search_everywhere_multi 415-436, generate 834-862,
\* _search_everywhere_multi 1043-1065
WorldScan(world) ==
    /\ At("world_scan")
    /\ idx <= Len(origin_list)
    /\ \E out \in world :
          /\ calls' = Append(calls, FlightCall(origin_list[idx], EVERYWHERE, out))
          /\ IF out.raised /\ ~Swallows
             THEN /\ Crash("BackendError")
                  /\ UNCHANGED << idx, all_countries >>
             ELSE /\ all_countries' = CollectCountries(all_countries, out.result,
                                                       flt.max_price)
                  /\ idx' = idx + 1
                  /\ UNCHANGED << pc, raised, response >>
    /\ events' = Yield(<< Event("progress", idx, Len(origin_list), 0) >>)
    /\ UNCHANGED << variant, flt, pair, flight_response, voli_trovati, voli_keys,
                    cards, accepted, firstSeen, seenIds >>
    /\ UNCHANGED << entry, payload, search_everywhere, all_cities >>
    /\ UNCHANGED << dest_items, outputs, guiVars >>

\* countries = list(all_countries.values()); generate 864-877
WorldScanDone ==
    /\ At("world_scan")
    /\ idx > Len(origin_list)
    /\ events' = IF all_countries # << >>
                 THEN Yield(<< Event("progress", Len(all_countries),
                                     Len(all_countries), 0) >>)
                 ELSE events
    /\ pc' = "drill_down"
    /\ idx' = 1
    /\ UNCHANGED << variant, flt, pair, flight_response, voli_trovati, voli_keys,
                    raised, cards, accepted, firstSeen, seenIds >>
    /\ UNCHANGED << entry, payload, search_everywhere, all_countries, all_cities,
                    response, calls >>
    /\ UNCHANGED << dest_items, outputs, guiVars >>

\* first_origin = origin_list[0]
first_origin == origin_list[1]

\* Stage B, one country: search_everywhere_multi 441-469, generate 879-916,
\* _search_everywhere_multi 1077-1107
DrillDown(lookups, drills) ==
    /\ At("drill_down")
    /\ idx <= Len(all_countries)
    /\ LET country == all_countries[idx] IN
       \E look \in lookups[country.skyCode] :
          LET lookup == LookupCall(country.skyCode, look) IN
          IF look.raised
          THEN /\ calls' = Append(calls, lookup)
               /\ IF Swallows
                  THEN idx' = idx + 1 /\ UNCHANGED << pc, raised, response >>
                  ELSE Crash("BackendError") /\ UNCHANGED idx
               /\ UNCHANGED all_cities
          ELSE IF look.result = << >>
          THEN /\ calls' = Append(calls, lookup)
               /\ idx' = idx + 1
               /\ UNCHANGED << pc, raised, response, all_cities >>
          ELSE \E out \in drills :
               /\ calls' = calls \o << lookup,
                                      FlightCall(first_origin,
                                                 CountryEntity(look.result, country),
                                                 out) >>
               /\ IF out.raised /\ ~Swallows
                  THEN /\ Crash("BackendError")
                       /\ UNCHANGED << idx, all_cities >>
                  ELSE /\ all_cities' = CollectCities(all_cities, out.result, country,
                                                      flt.max_price)
                       /\ idx' = idx + 1
                       /\ UNCHANGED << pc, raised, response >>
    /\ events' = Yield(<< Event("progress", idx, Len(all_countries), 0) >>)
    /\ UNCHANGED << variant, flt, pair, flight_response, voli_trovati, voli_keys,
                    cards, accepted, firstSeen, seenIds >>
    /\ UNCHANGED << entry, payload, search_everywhere, all_countries >>
    /\ UNCHANGED << dest_items, outputs, guiVars >>

\* cities = list(all_cities.values()); voli_trovati = []; voli_keys = {};
\* search_count = 0; generate 918-932
DrillDownDone ==
    /\ At("drill_down")
    /\ idx > Len(all_countries)
    /\ events' = IF all_cities # << >>
                 THEN Yield(<< Event("progress", Len(all_cities), Len(all_cities), 0) >>)
                 ELSE events
    /\ pc' = "pairs"
    /\ pair' = 1
    /\ UNCHANGED << variant, flt, flight_response, voli_trovati, voli_keys,
                    raised, cards, accepted, firstSeen, seenIds >>
    /\ UNCHANGED << entry, payload, search_everywhere, idx, all_countries, all_cities,
                    response, calls >>
    /\ UNCHANGED << dest_items, outputs, guiVars >>

\* Variant: the cross product is walked origin-major.
EverywherePairs_OriginMajor ==
    [i \in 1..(Len(all_cities) * Len(origin_list)) |->
        [city |-> all_cities[((i - 1) % Len(all_cities)) + 1],
         origin |-> origin_list[((i - 1) \div Len(all_cities)) + 1]]]

\* for city in cities: for origin in origin_list
EverywherePairs ==
    [i \in 1..(Len(all_cities) * Len(origin_list)) |->
        [city |-> all_cities[((i - 1) \div Len(origin_list)) + 1],
         origin |-> origin_list[((i - 1) % Len(origin_list)) + 1]]]

\* process_flight_response / self._process_flight_response on the shared
\* voli_trovati and voli_keys
Feed(origin, city, buckets) ==
    IF variant = "server"
    THEN process_flight_response(flt, origin, city, Builder, buckets)
    ELSE gui_process_flight_response(flt, origin, city, Builder, buckets)

\* The iteration ends without a builder call: continue, or the exception of
\* a backend call.
SkipPair(failed) ==
    /\ IF failed /\ ~Swallows
       THEN Crash("BackendError") /\ UNCHANGED pair
       ELSE pair' = pair + 1 /\ UNCHANGED << pc, raised, response >>
    /\ UNCHANGED << voli_trovati, voli_keys, cards, accepted, firstSeen >>

\* The builder was called and returned b or raised b.raised.
AfterBuilder(b) ==
    /\ voli_trovati' = b.voli_trovati
    /\ voli_keys' = b.voli_keys
    /\ cards' = b.cards
    /\ accepted' = b.accepted
    /\ firstSeen' = b.firstSeen
    /\ IF b.raised # "none" /\ ~Swallows
       THEN Crash(b.raised) /\ UNCHANGED pair
       ELSE pair' = pair + 1 /\ raised' = b.raised /\ UNCHANGED << pc, response >>

\* if len(voli_trovati) > before_count: yield results
ResultsEvents(b) ==
    IF b.raised = "none" /\ Len(b.voli_trovati) > Len(voli_trovati)
    THEN << FlightsEvent("results", Len(b.voli_trovati),
                         SubSeq(b.voli_trovati, Len(voli_trovati) + 1,
                                Len(b.voli_trovati))) >>
    ELSE << >>

\* One (city, origin) pair: search_everywhere_multi 476-500, generate 934-982,
\* _search_everywhere_multi 1124-1147
EverywherePair(lookups, flights) ==
    /\ At("pairs")
    /\ search_everywhere
    /\ pair <= Len(EverywherePairs)
    /\ LET city == EverywherePairs[pair].city
           origin == EverywherePairs[pair].origin
           progress == Event("progress", pair, Len(EverywherePairs), Len(voli_trovati))
       IN
       \E look \in lookups[city.skyCode] :
          LET lookup == LookupCall(city.skyCode, look) IN
          IF look.raised \/ look.result = << >>
          THEN /\ calls' = Append(calls, lookup)
               /\ SkipPair(look.raised)
               /\ events' = Yield(<< progress >>)
          ELSE \E out \in flights :
               /\ calls' = calls \o << lookup, FlightCall(origin, look.result[1], out) >>
               /\ IF out.raised
                  THEN /\ SkipPair(TRUE)
                       /\ events' = Yield(<< progress >>)
                  ELSE LET b == Feed(origin, city, out.result) IN
                       /\ AfterBuilder(b)
                       /\ events' = Yield(<< progress >> \o ResultsEvents(b))
    /\ UNCHANGED << variant, flt, flight_response, seenIds >>
    /\ UNCHANGED << entry, payload, search_everywhere, idx, all_countries, all_cities >>
    /\ UNCHANGED << dest_items, outputs, guiVars >>

\* ", ".join(codes)
RECURSIVE Join(_)
Join(codes) ==
    IF codes = << >> THEN ""
    ELSE IF Len(codes) = 1 THEN codes[1]
    ELSE codes[1] \o ", " \o Join(Tail(codes))

\* stats = {"paesi": len(countries), "città": len(cities), "partenze": ...} /
\*         {"partenze": ..., "destinazioni": ...}
Stats ==
    IF search_everywhere
    THEN [paesi |-> Len(all_countries), citta |-> Len(all_cities),
          partenze |-> Join(origin_list)]
    ELSE [partenze |-> Join(origin_list),
          destinazioni |-> Join([i \in 1..Len(dest_list) |-> dest_list[i].skyId])]

\* jsonify({"flights": flights, "stats": stats, "count": len(flights),
\*          "search_everywhere": search_everywhere})
SearchResult(flights, stats) ==
    [kind |-> "flights", message |-> "", flights |-> flights, stats |-> stats,
     count |-> Len(flights), search_everywhere |-> search_everywhere]

\* Variant: the complete event never says everywhere.
CompleteEvent_NotEverywhere(flights, stats) ==
    [type |-> "complete", current |-> 0, total |-> 0, count |-> Len(flights),
     flights |-> flights, stats |-> stats, search_everywhere |-> FALSE]

\* {"type": "complete", "flights": flights, "stats": stats,
\*  "count": len(flights), "search_everywhere": search_everywhere}
CompleteEvent(flights, stats) ==
    [type |-> "complete", current |-> 0, total |-> 0, count |-> Len(flights),
     flights |-> flights, stats |-> stats, search_everywhere |-> search_everywhere]

\* return voli_trovati, stats ... return jsonify({"flights": ...});
\* yield sse_event({"type": "complete", ...})
SearchDone(total) ==
    /\ At("pairs")
    /\ pair > total
    /\ pc' = "done"
    /\ LET flights == IF entry = "gui" THEN << >>
                       ELSE sort_flights(voli_trovati, Get(payload.sort, JText("prezzo")))
       IN /\ response' = SearchResult(flights, Stats)
          /\ events' = Yield(<< CompleteEvent(flights, Stats) >>)
    /\ UNCHANGED << variant, flt, pair, flight_response, voli_trovati, voli_keys,
                    raised, cards, accepted, firstSeen, seenIds >>
    /\ UNCHANGED << entry, payload, search_everywhere, idx, all_countries, all_cities,
                    calls >>
    /\ UNCHANGED << dest_items, outputs, guiVars >>

EverywhereDone == search_everywhere /\ SearchDone(Len(EverywherePairs))

\* dest_list = [airport_from_code(scanner, code) for code in dest_codes]:
\* api_search 1166-1169, generate 992-996
ResolveDests ==
    /\ At("resolve_dests")
    /\ \A i \in 1..Len(dest_items) : dest_items[i].entity_type # "COUNTRY"
    /\ LET dest_codes == dedupe_codes(dest_items) IN
       \E k \in 0..Len(dest_codes) :
          /\ calls' = calls \o ResolveCalls(dest_codes, k)
          /\ IF k < Len(dest_codes)
             THEN ResolutionError
             ELSE pc' = "pairs" /\ UNCHANGED << response, events >>
    /\ pair' = 1
    /\ UNCHANGED << variant, flt, flight_response, voli_trovati, voli_keys,
                    raised, cards, accepted, firstSeen, seenIds >>
    /\ UNCHANGED << entry, payload, search_everywhere, idx, all_countries, all_cities >>
    /\ UNCHANGED << dest_items, outputs, guiVars >>

\* FlightSearchApp._search_specific_destinations 1158-1171
GuiSpecificStart ==
    /\ At("specific")
    /\ pc' = "pairs"
    /\ pair' = 1
    /\ UNCHANGED << variant, flt, flight_response, voli_trovati, voli_keys,
                    raised, cards, accepted, firstSeen, seenIds >>
    /\ UNCHANGED searchVars
    /\ UNCHANGED << dest_items, outputs, guiVars >>

\* One (origin, dest) pair: search_specific_destinations 625-647,
\* generate 1006-1048, _search_specific_destinations 1173-1194
SpecificPair(flights) ==
    /\ At("pairs")
    /\ ~search_everywhere
    /\ pair <= Len(Pairs)
    /\ LET origin == Pairs[pair].origin
           dest == Pairs[pair].dest
           progress == Event("progress", pair, Len(Pairs), Len(voli_trovati))
       IN
       \E out \in flights :
          /\ calls' = Append(calls, FlightCall(origin, Airport(dest.title, dest.skyId), out))
          /\ IF out.raised
             THEN /\ SkipPair(TRUE)
                  /\ events' = Yield(<< progress >>)
             ELSE LET b == Feed(origin, CityInfo(dest), out.result) IN
                  /\ AfterBuilder(b)
                  /\ events' = Yield(<< progress >> \o ResultsEvents(b))
    /\ UNCHANGED << variant, flt, flight_response, seenIds >>
    /\ UNCHANGED << entry, payload, search_everywhere, idx, all_countries, all_cities >>
    /\ UNCHANGED << dest_items, outputs, guiVars >>

SpecificDone == ~search_everywhere /\ SearchDone(Len(Pairs))

(***************************************************************************)
(* A request from its arrival to the resolution of its origins.            *)
(***************************************************************************)
ValidationInit ==
    /\ entry \in {"api_search", "api_search_stream"}
    /\ payload \in Payloads
    /\ pc = "request"
    /\ variant = "server"
    /\ flt = RequestFilters(Payload(<< >>, << >>, FALSE, JAbsent, JAbsent, JAbsent, JAbsent))
    /\ search_everywhere = FALSE
    /\ pair = 1
    /\ idx = 1
    /\ flight_response = << >>
    /\ voli_trovati = << >>
    /\ voli_keys = << >>
    /\ raised = "none"
    /\ cards = << >>
    /\ accepted = {}
    /\ firstSeen = << >>
    /\ seenIds = {}
    /\ all_countries = << >>
    /\ all_cities = << >>
    /\ events = << >>
    /\ response = NoResponse
    /\ calls = << >>
    /\ dest_items = normalize_selected_locations(payload.destinations)
    /\ outputs = << >>
    /\ GuiIdle

ValidationNext ==
    \/ ApiSearch
    \/ ApiSearchStream
    \/ ResolveOrigins

ValidationSpec == ValidationInit /\ [][ValidationNext]_vars

(***************************************************************************)
(* A whole search, from the resolution of the origins to the answer, in    *)
(* both modes and from the three callers, over a small backend.            *)
(***************************************************************************)
Spagna == Result("Spagna", "ES", <<50>>)
Francia == Result("Francia", "FR", <<100>>)
Barcellona == Result("Barcellona", "BCN", <<40>>)
Parigi == Result("Parigi", "PAR", <<90>>)

\* everywhereDestination results of one origin
SmallWorld == { Raises, Returns(<< >>), Returns(<< Spagna >>), Returns(<< Spagna, Francia >>) }

\* countryDestination results of one country
SmallDrills == { Raises, Returns(<< >>), Returns(<< Barcellona >>),
                 Returns(<< Barcellona, Parigi >>) }

\* search_airports(code): an error, nothing, or the place of that code
SmallLookups(code) == { Raises, Returns(<< >>), Returns(<< Airport(code, code) >>) }

\* An itinerary that takes origin and destination from the pair, and one
\* without an id.
PairItem ==
    [Item("a", <<80>>, TS(1, 18, 0), TS(1, 20, 0), 0, <<>>, <<"Ryanair">>, Absent)
        EXCEPT !.destCode = Absent, !.destCity = Absent]
NoIdItem == Item(Absent, <<80>>, TS(1, 18, 0), TS(1, 20, 0), 0, <<>>, <<"Ryanair">>, "VCE")

\* get_flight_prices(origin, destination): an error, or a response with no
\* bucket, one good item, or one item without id
SmallFlights == { Raises, Returns(<< >>), Returns(<< << PairItem >> >>),
                  Returns(<< << NoIdItem >> >>) }

\* A request has been accepted; nothing has been done for it yet.
SearchStart(requests) ==
    /\ entry \in Entries
    /\ payload \in requests
    /\ search_everywhere = SearchEverywhere(payload)
    /\ variant = IF entry = "gui" THEN "gui" ELSE "server"
    /\ flt = RequestFilters(payload)
    /\ pc = "start"
    /\ pair = 1
    /\ idx = 1
    /\ flight_response = << >>
    /\ voli_trovati = << >>
    /\ voli_keys = IF variant = "server" THEN << >> ELSE {}
    /\ raised = "none"
    /\ cards = << >>
    /\ accepted = {}
    /\ firstSeen = << >>
    /\ seenIds = {}
    /\ all_countries = << >>
    /\ all_cities = << >>
    /\ events = << >>
    /\ response = NoResponse
    /\ calls = << >>
    /\ dest_items = normalize_selected_locations(payload.destinations)
    /\ outputs = << >>
    /\ GuiIdle

SearchInit == SearchStart(SearchRequests)

SearchNext ==
    \/ ResolveOrigins
    \/ SearchFlights
    \/ WorldScan(SmallWorld)
    \/ WorldScanDone
    \/ DrillDown([code \in STRING |-> SmallLookups(code)], SmallDrills)
    \/ DrillDownDone
    \/ EverywherePair([code \in STRING |-> SmallLookups(code)], SmallFlights)
    \/ EverywhereDone
    \/ ResolveDests
    \/ GuiSpecificStart
    \/ SpecificPair(SmallFlights)
    \/ SpecificDone

SearchSpec == SearchInit /\ [][SearchNext]_vars

(***************************************************************************)
(* Properties of the Search Orchestrator and the Destination Expander.     *)
(***************************************************************************)
\* The search has ended: answered, or left by an exception.
Ended == response.kind # "none"

\* The calls issued by the iteration of a loop.
CallsOf(place, i) == { k \in 1..Len(calls) : calls[k].at = place /\ calls[k].step = i }

\* A backend call of the iteration raised.
BackendFailed(place, i) == \E k \in CallsOf(place, i) : calls[k].raised

\* C11: a pair whose lookup or flight query fails (or whose lookup is empty)
\* does not end the search: the search never stops on a backend error inside
\* the pair loop, in either mode, with pairs of the cross product unvisited.
C11_PairFailureDoesNotAbort ==
    ~(/\ pc = "pairs"
      /\ response.kind = "crash"
      /\ BackendFailed("pairs", pair))

\* C12: a country whose place lookup or drill-down query fails does not end
\* the expansion: the search never stops on a backend error inside the
\* country loop of Stage B.
C12_CountryFailureDoesNotAbort ==
    ~(/\ pc = "drill_down"
      /\ response.kind = "crash"
      /\ BackendFailed("drill_down", idx))

\* The terminal events of a stream.
IsTerminal(e) == e.type \in {"complete", "error"}

\* C13: a streaming search that has ended has emitted exactly one terminal
\* event (complete or error), as its last event.
C13_OneTerminalEvent ==
    (entry = "api_search_stream" /\ Ended) =>
        /\ events # << >>
        /\ IsTerminal(events[Len(events)])
        /\ \A i \in 1..(Len(events) - 1) : ~IsTerminal(events[i])

\* C14: the current step index of the progress events of one stream never
\* decreases in emission order.
C14_ProgressMonotonic ==
    \A i \in 1..Len(events) : \A j \in 1..Len(events) :
        (i < j /\ events[i].type = "progress" /\ events[j].type = "progress") =>
            events[i].current <= events[j].current

SoleCause(p) ==
    LET o == OriginCodes(p) = << >>
        d == ~parse_date(Get(p.depart_date, JText(""))).ok
        n == ~(/\ float(Get(p.max_price, JNum(0))).ok
               /\ int(Get(p.min_hour, JNum(0))).ok
               /\ int(Get(p.max_arrival_hour, JNum(24))).ok)
    IN  IF o /\ ~d /\ ~n THEN "origins"
        ELSE IF ~o /\ d /\ ~n THEN "date"
        ELSE IF ~o /\ ~d /\ n THEN "number"
        ELSE "other"

\* C16: the message of a rejected request with one failure cause differs
\* from the message of every request with another single cause.
C16_DistinctMessages ==
    (response.kind = "invalid" /\ SoleCause(payload) # "other") =>
        \A q \in Payloads :
            (SoleCause(q) # "other" /\ SoleCause(q) # SoleCause(payload)) =>
                ValidationError(q) # response.message

\* A requested origin or destination code did not resolve.
Unresolved == \E k \in 1..Len(calls) : calls[k].op = "get_airport_by_code" /\ calls[k].raised

\* C17: once a requested origin or destination code has failed to resolve,
\* the search has ended in an error (the error answer of api_search, the
\* error event as last event of the stream) and no flight query was or is
\* issued.
C17_UnresolvedCodeEndsSearch ==
    Unresolved =>
        /\ response.kind = "error"
        /\ entry = "api_search_stream" =>
              /\ events # << >>
              /\ events[Len(events)].type = "error"
        /\ \A k \in 1..Len(calls) : calls[k].op # "get_flight_prices"

\* C17 witness: a stream in specific mode resolved both origins and ended
\* on the destination that did not resolve.
C17_Witness ==
    /\ entry = "api_search_stream"
    /\ ~search_everywhere
    /\ Len(calls) = 3
    /\ calls[3].raised /\ calls[3].query = "LON"
    /\ response.kind = "error"
    /\ Len(events) = 2

(***************************************************************************)
(* Stage A (world scan) alone, over every response of up to MaxResults     *)
(* results: with and without name, code and price, at, above and below the *)
(* ceiling, priced 0, and two names under one code.                        *)
(***************************************************************************)
WorldResultPool ==
    { Spagna, Francia,
      Result("Espana", "ES", <<60>>),
      Result(Absent, "DE", <<50>>),
      Result("Italia", Absent, <<50>>),
      Result("Grecia", "GR", << >>),
      Result("Norvegia", "NO", <<150>>),
      Result("Malta", "MT", <<0>>) }

World ==
    { Raises } \cup
    { Returns(rs) : rs \in UNION { [1..n -> WorldResultPool] : n \in 0..MaxResults } }

ScanInit ==
    /\ SearchInit
    /\ search_everywhere

ScanNext ==
    \/ ResolveOrigins
    \/ SearchFlights
    \/ WorldScan(World)
    \/ WorldScanDone

ScanSpec == ScanInit /\ [][ScanNext]_vars

\* The results of the world-scan responses received, in origin order, then
\* result order.
RECURSIVE ScannedFrom(_)
ScannedFrom(k) ==
    IF k > Len(calls) THEN << >>
    ELSE (IF calls[k].at = "world_scan" THEN calls[k].result ELSE << >>)
         \o ScannedFrom(k + 1)

Scanned == ScannedFrom(1)

\* The result has a name, a code and a cheapest price <= the ceiling.
WithinCeiling(r) ==
    /\ r.name # Absent
    /\ r.skyCode # Absent
    /\ r.rawPrice # << >>
    /\ r.rawPrice[1] <= flt.max_price

\* C18: when the world scan is over, all_countries holds exactly the codes
\* of the scanned results with a name, a code and a price <= the ceiling,
\* each once, with the name of the first such result of that code.
C18_WorldScanExact ==
    pc = "drill_down" =>
        /\ { all_countries[i].skyCode : i \in 1..Len(all_countries) } =
           { Scanned[k].skyCode : k \in { j \in 1..Len(Scanned) : WithinCeiling(Scanned[j]) } }
        /\ \A i \in 1..Len(all_countries) : \A j \in 1..Len(all_countries) :
              all_countries[i].skyCode = all_countries[j].skyCode => i = j
        /\ \A i \in 1..Len(all_countries) :
              \E k \in 1..Len(Scanned) :
                 /\ WithinCeiling(Scanned[k])
                 /\ Scanned[k].skyCode = all_countries[i].skyCode
                 /\ Scanned[k].name = all_countries[i].name
                 /\ \A j \in 1..(k - 1) :
                       WithinCeiling(Scanned[j]) => Scanned[j].skyCode # Scanned[k].skyCode

(***************************************************************************)
(* Stage B (country drill-down) after a small world scan, over every       *)
(* lookup result and every response of up to MaxResults city results.      *)
(***************************************************************************)
CityResultPool == { Barcellona, Parigi, Result("Madrid", "MAD", <<150>>) }

Drills ==
    { Raises } \cup
    { Returns(rs) : rs \in UNION { [1..n -> CityResultPool] : n \in 0..MaxResults } }

\* search_airports(code): an error, nothing, the place of that code first or
\* second, or another place only
Lookups(code) ==
    { Raises, Returns(<< >>), Returns(<< Airport(code, code) >>),
      Returns(<< Airport("Altro", "XX"), Airport(code, code) >>),
      Returns(<< Airport("Altro", "XX") >>) }

DrillNext ==
    \/ ResolveOrigins
    \/ SearchFlights
    \/ WorldScan(SmallWorld)
    \/ WorldScanDone
    \/ DrillDown([code \in STRING |-> Lookups(code)], Drills)
    \/ DrillDownDone

DrillSpec == ScanInit /\ [][DrillNext]_vars

\* The drill-down queries issued for the country at a position of Stage A.
DrillQueries(i) ==
    { k \in CallsOf("drill_down", i) : calls[k].op = "get_flight_prices" }

\* A city result with that code, a name and a price <= the ceiling came back
\* from the drill-down of the country at position i.
FoundUnder(code, i) ==
    \E k \in DrillQueries(i) :
        /\ ~calls[k].raised
        /\ \E m \in 1..Len(calls[k].result) :
              /\ calls[k].result[m].skyCode = code
              /\ WithinCeiling(calls[k].result[m])

PairLookups(i) == { k \in CallsOf("pairs", i) : calls[k].op = "search_airports" }
PairQueries(i) == { k \in CallsOf("pairs", i) : calls[k].op = "get_flight_prices" }

\* The flight query of the iteration returned the good itinerary.
ReturnedPairItem(i) ==
    \E q \in PairQueries(i) : ~calls[q].raised /\ calls[q].result = << << PairItem >> >>

Base == Item("a", <<80>>, TS(1, 18, 0), TS(1, 20, 0), 0, <<>>, <<"Ryanair">>, "VCE")

\* The departure, carrier and price of Base, arriving an hour later.
LaterArrival ==
    [Item("b", <<80>>, TS(1, 18, 0), TS(1, 21, 0), 0, <<>>, <<"Ryanair">>, "VCE")
        EXCEPT !.durationInMinutes = 180]

Cheaper == Item("c", <<30>>, TS(1, 18, 0), TS(1, 20, 0), 0, <<>>, <<"Ryanair">>, "VCE")

OtherCarrier == Item("d", <<80>>, TS(1, 18, 0), TS(1, 20, 0), 0, <<>>, <<"Wizz">>, "VCE")

\* One stopover of 30 minutes.
OneStop == Item("e", <<50>>, TS(1, 18, 0), TS(1, 20, 0), 1, GoodSegs, <<"easyJet">>, "VCE")

\* Two stopovers: the first connection leaves at the minute of the arrival,
\* the second ten minutes before it.
TwoStops ==
    [Item("f", <<50>>, TS(1, 18, 30), TS(1, 22, 0), 2,
          << Seg(TS(1, 19, 0), TS(1, 18, 30), "MXP"),
             Seg(TS(1, 20, 0), TS(1, 19, 0), "FCO"),
             Seg(TS(1, 22, 0), TS(1, 19, 50), "STN") >>,
          <<"Ryanair">>, "VCE")
        EXCEPT !.durationInMinutes = 210]

\* One stopover whose connection leaves 30 seconds after the arrival.
ShortWait ==
    Item("g", <<60>>, TS(1, 18, 0), TS(1, 20, 0), 1,
         << Seg(TS(1, 18, 50), TS(1, 18, 0), "MXP"),
            Seg(TS(1, 20, 0), [TS(1, 18, 50) EXCEPT !.second = 30], "STN") >>,
         <<"Vueling">>, "VCE")

MergePool ==
    { Base, LaterArrival, Cheaper, OtherCarrier, OneStop, TwoStops, ShortWait, PairItem }

\* get_flight_prices(origin, destination): an error, or a response of one
\* bucket with no, one or two itineraries
MergeFlights ==
    { Raises, Returns(<< >>), Returns(<< << PairItem, NoIdItem >> >>) } \cup
    { Returns(<< << a >> >>) : a \in MergePool } \cup
    { Returns(<< << a, b >> >>) : a \in MergePool, b \in MergePool }

\* payload.get("sort", "prezzo")
SortKeys == { JAbsent, JText("prezzo"), JText("orario"), JText("durata"), JText("boh") }

\* The request to London with each sort key.
MergeRequests ==
    { [p EXCEPT !.sort = k] : p \in { q \in SearchRequests : ~SearchEverywhere(q) },
                              k \in SortKeys }

\* The GUI has no sort key.
MergeInit ==
    /\ SearchStart(MergeRequests)
    /\ entry = "gui" => payload.sort = JAbsent

MergeNext ==
    \/ ResolveOrigins
    \/ SearchFlights
    \/ ResolveDests
    \/ GuiSpecificStart
    \/ SpecificPair(MergeFlights)
    \/ SpecificDone

MergeSpec == MergeInit /\ [][MergeNext]_vars

\* The fields of a flight record (the model's record also keeps the raw item).
FlightFields(f) ==
    [citta |-> f.citta, paese |-> f.paese, codice_dest |-> f.codice_dest,
     codice_origine |-> f.codice_origine, prezzo |-> f.prezzo,
     partenza |-> f.partenza, arrivo |-> f.arrivo, durata |-> f.durata,
     durata_min |-> f.durata_min, scali |-> f.scali, stopovers |-> f.stopovers,
     compagnia |-> f.compagnia]

FlightSet(list) == { FlightFields(list[i]) : i \in 1..Len(list) }

\* voli_trovati = []; voli_keys = {} / set()
EmptyBuilder ==
    [voli_trovati |-> << >>, voli_keys |-> IF variant = "server" THEN << >> ELSE {},
     voli_visti |-> {}, raised |-> "none", cards |-> << >>, accepted |-> {},
     firstSeen |-> << >>]

\* The response of pair i of the specific search merged into a builder state:
\* nothing when the query failed.
Merged(b, i) ==
    LET k == CHOOSE q \in PairQueries(i) : TRUE IN
    IF calls[k].raised THEN b
    ELSE IF variant = "server"
         THEN process_flight_response(flt, Pairs[i].origin, CityInfo(Pairs[i].dest),
                                      b, calls[k].result)
         ELSE gui_process_flight_response(flt, Pairs[i].origin, CityInfo(Pairs[i].dest),
                                          b, calls[k].result)

\* What two interchangeable records share: origin, destination, departure
\* time, carrier and price.
Interchangeable(list) ==
    { [codice_origine |-> list[i].codice_origine, codice_dest |-> list[i].codice_dest,
       partenza |-> list[i].partenza, compagnia |-> list[i].compagnia,
       prezzo |-> list[i].prezzo] : i \in 1..Len(list) }

\* The two responses of a finished search merged in the other order.
OtherOrder == Merged(Merged(EmptyBuilder, 2), 1).voli_trovati

\* C22: the records of a finished search over two pairs are, up to
\* interchangeable records, the records that merging the same two responses
\* in the other order yields.
C22_MergeOrderIndependent ==
    (~search_everywhere /\ pc = "done" /\ Len(Pairs) = 2) =>
        Interchangeable(voli_trovati) = Interchangeable(OtherOrder)

(***************************************************************************)
(* The builder fed twice with one raw response, each time on a list and a  *)
(* ledger just created, as two searches that get the same response do.     *)
(***************************************************************************)
\* Variant: the second run appends to the list of the first.
KeptList == voli_trovati

\* voli_trovati = []
FreshList == << >>

\* voli_keys = {} (server) / set() (GUI)
FreshLedger == IF variant = "server" THEN << >> ELSE {}

\* The builder has returned (or raised): its output is noted, and after the
\* first run the same response is handed to a second one.
FeedAgain ==
    /\ pc = "returned"
    /\ outputs' = Append(outputs, [voli_trovati |-> voli_trovati, raised |-> raised])
    /\ IF outputs = << >>
       THEN /\ pc' = "process"
            /\ voli_trovati' = FreshList
            /\ voli_keys' = FreshLedger
            /\ raised' = "none"
            /\ seenIds' = seenIds \cup ResponseIds
       ELSE /\ pc' = "done"
            /\ UNCHANGED << voli_trovati, voli_keys, raised, seenIds >>
    /\ UNCHANGED << variant, flt, pair, flight_response, cards, accepted, firstSeen >>
    /\ UNCHANGED << searchVars, dest_items, guiVars >>

RepeatNext ==
    \/ GetFlightPrices
    \/ ProcessFlightResponse
    \/ GuiProcessFlightResponse
    \/ FeedAgain

RepeatSpec == Init /\ [][RepeatNext]_vars

IsStableOrder(list, out, k) ==
    /\ Len(out) = Len(list)
    /\ \E p \in [1..Len(list) -> 1..Len(list)] :
          /\ \A i, j \in 1..Len(list) : i /= j => p[i] /= p[j]
          /\ \A i \in 1..Len(list) : out[i] = list[p[i]]
          /\ \A i, j \in 1..Len(list) :
                i < j => \/ k[p[i]] < k[p[j]]
                         \/ k[p[i]] = k[p[j]] /\ p[i] < p[j]

\* A server search has ended with its list of flights.
Sorted ==
    /\ entry /= "gui"
    /\ pc = "done"
    /\ response.kind = "flights"

\* C24: with the key "prezzo" (also by default) the returned list is in
\* non-decreasing order of price, and with any key other than "orario" and
\* "durata" it is the list that the key "prezzo" gives: the records of
\* voli_trovati by price, those of one price in their order.
C24_PriceIsDefaultOrder ==
    (Sorted /\ payload.sort \notin { JText("orario"), JText("durata") }) =>
        /\ \A i, j \in 1..Len(response.flights) :
              i < j => response.flights[i].prezzo <= response.flights[j].prezzo
        /\ IsStableOrder(voli_trovati, response.flights,
                         [i \in 1..Len(voli_trovati) |-> voli_trovati[i].prezzo])

\* C24 witness: a search with a key that is none of the three has ended, and
\* its list of flights went from dearer-first to cheaper-first while the
\* durations go the other way.
C24_Witness ==
    /\ Sorted
    /\ payload.sort = JText("boh")
    /\ Len(voli_trovati) = 2
    /\ voli_trovati[1].prezzo > voli_trovati[2].prezzo
    /\ voli_trovati[1].durata_min < voli_trovati[2].durata_min
    /\ response.flights = << voli_trovati[2], voli_trovati[1] >>

\* C25: for each of the three keys the returned list is a permutation of
\* voli_trovati in non-decreasing order of the key, and records of equal key
\* keep the order they had.
C25_SortStable ==
    Sorted =>
        IsStableOrder(voli_trovati, response.flights,
                      [i \in 1..Len(voli_trovati) |->
                          SortKey(Get(payload.sort, JText("prezzo")), voli_trovati[i])])

\* C25 witness: sorted by departure time, three records of which the first
\* and the last leave at the same minute after the one in the middle: the
\* middle one goes last and the other two keep their order.
C25_Witness ==
    /\ Sorted
    /\ payload.sort = JText("orario")
    /\ Len(voli_trovati) = 3
    /\ voli_trovati[1].partenza = voli_trovati[3].partenza
    /\ voli_trovati[2].partenza = "18:30"
    /\ voli_trovati[1].partenza = "18:00"
    /\ response.flights = << voli_trovati[1], voli_trovati[3], voli_trovati[2] >>

(***************************************************************************)
(* The results events of a streamed search.                                *)
(***************************************************************************)
\* A step of the streamed search that runs one query pair.
StreamPairStep ==
    /\ entry = "api_search_stream"
    /\ pc = "pairs"
    /\ Len(calls') = Len(calls) + 1
    /\ calls'[Len(calls')].op = "get_flight_prices"

\* The events a step has put on the stream.
Emitted == SubSeq(events', Len(events) + 1, Len(events'))

\* The positions of the list after a step whose record the list did not
\* hold before it.
NewRecords ==
    { i \in 1..Len(voli_trovati') :
        \A j \in 1..Len(voli_trovati) : voli_trovati[j] /= voli_trovati'[i] }

ResultsEventsOf(evs) == SelectSeq(evs, LAMBDA e : e.type = "results")

\* C26: a query pair of a streamed search is followed by a results event
\* exactly when it has put new records in the aggregate list, the event
\* holds the records the pair appended and the length of the list, and the
\* counts of the results events of a stream are strictly increasing.
C26_ResultsWhenNewRecords ==
    /\ [][StreamPairStep =>
            LET results == ResultsEventsOf(Emitted) IN
            /\ Len(results) <= 1
            /\ Len(results) = 1 <=> NewRecords /= {}
            /\ Len(results) = 1 =>
                  /\ results[1].flights =
                        SubSeq(voli_trovati', Len(voli_trovati) + 1, Len(voli_trovati'))
                  /\ results[1].count = Len(voli_trovati')]_vars
    /\ [](\A i, j \in 1..Len(ResultsEventsOf(events)) :
              i < j => ResultsEventsOf(events)[i].count < ResultsEventsOf(events)[j].count)

(***************************************************************************)
(* Text: a string as the sequence of its characters, for the tests that    *)
(* look inside one (`in`, lower()).                                        *)
(***************************************************************************)
Chars(s) ==
    CASE s = "" -> << >>
      [] s = "CITY" -> << "C", "I", "T", "Y" >>
      [] s = "AIRPORT" -> << "A", "I", "R", "P", "O", "R", "T" >>
      [] s = "COUNTRY" -> << "C", "O", "U", "N", "T", "R", "Y" >>
      [] s = "REGION" -> << "R", "E", "G", "I", "O", "N" >>
      [] s = "PLACE_TYPE_CITY" ->
            << "P", "L", "A", "C", "E", "_", "T", "Y", "P", "E", "_", "C", "I", "T", "Y" >>
      [] s = "Italia" -> << "I", "t", "a", "l", "i", "a" >>
      [] s = "ITALIA" -> << "I", "T", "A", "L", "I", "A" >>
      [] s = "Lazio, Italia" ->
            << "L", "a", "z", "i", "o", ",", " ", "I", "t", "a", "l", "i", "a" >>
      [] s = "Italy" -> << "I", "t", "a", "l", "y" >>
      [] s = "Francia" -> << "F", "r", "a", "n", "c", "i", "a" >>

UpperCase == << "A", "F", "I", "L", "T" >>
LowerCase == << "a", "f", "i", "l", "t" >>

\* str.lower(), character by character
Lower(text) ==
    [i \in 1..Len(text) |->
        IF \E u \in 1..Len(UpperCase) : UpperCase[u] = text[i]
        THEN LowerCase[CHOOSE u \in 1..Len(UpperCase) : UpperCase[u] = text[i]]
        ELSE text[i]]

\* word in text
Contains(text, word) ==
    \E i \in 0..(Len(text) - Len(word)) : SubSeq(text, i + 1, i + Len(word)) = word

(***************************************************************************)
(* The geography tree and the places of a country.                         *)
(***************************************************************************)
\* A node of the hierarchy: "" stands for a key the node does not have.
Node(placeType, skyCode, name, countryId, children) ==
    [placeType |-> placeType, skyCode |-> skyCode, name |-> name,
     countryId |-> countryId, children |-> children]

\* {"skyCode": sky_code, "name": name, "type": normalized_type}
CountryPlace(skyCode, name, type) == [skyCode |-> skyCode, name |-> name, type |-> type]

\* matches[sky_code] = {...}: a dict keeps the position of the first
\* assignment of a key and the value of the last
PutMatch(matches, place) ==
    IF \E i \in 1..Len(matches) : matches[i].skyCode = place.skyCode
    THEN [i \in 1..Len(matches) |->
            IF matches[i].skyCode = place.skyCode THEN place ELSE matches[i]]
    ELSE Append(matches, place)

\* Variant: every country node makes its descendants match.
CountryBelow_AnyCountry(node, current_country, country_code) ==
    IF Contains(Chars(node.placeType), Chars("COUNTRY"))
    THEN country_code ELSE current_country

\* if "COUNTRY" in place_type and sky_code == country_code:
\*     current_country = country_code
CountryBelow(node, current_country, country_code) ==
    IF Contains(Chars(node.placeType), Chars("COUNTRY")) /\ node.skyCode = country_code
    THEN country_code ELSE current_country

normalized_type(node) ==
    IF Contains(Chars(node.placeType), Chars("CITY")) THEN "CITY"
    ELSE IF Contains(Chars(node.placeType), Chars("AIRPORT")) THEN "AIRPORT"
    ELSE ""

RECURSIVE walk(_, _, _, _)
RECURSIVE WalkList(_, _, _, _)

\* for item in node: walk(item, current_country)
WalkList(nodes, current_country, country_code, matches) ==
    IF nodes = << >> THEN matches
    ELSE WalkList(Tail(nodes), current_country, country_code,
                  walk(Head(nodes), current_country, country_code, matches))

\* extract_country_places.walk on a dict node; None is ""
walk(node, current_country, country_code, matches) ==
    LET below == CountryBelow(node, current_country, country_code)
        found ==
            IF /\ normalized_type(node) # ""
               /\ node.skyCode # ""
               /\ (node.countryId = country_code \/ below = country_code)
            THEN PutMatch(matches,
                          CountryPlace(node.skyCode,
                                       IF node.name # "" THEN node.name ELSE node.skyCode,
                                       normalized_type(node)))
            ELSE matches
    IN WalkList(node.children, below, country_code, found)

extract_country_places(hierarchy, country_code) ==
    walk(hierarchy, "", country_code, << >>)

\* An Airport of search_airports: Absent is a subtitle of None.
Suggestion(title, skyId, entity_type, subtitle) ==
    [title |-> title, skyId |-> skyId, entity_type |-> entity_type, subtitle |-> subtitle]

\* Variant: the subtitle is compared as it is written.
SubtitleMentions_CaseSensitive(subtitle, country_name) ==
    \/ country_name = ""
    \/ Contains(Chars(IF subtitle = Absent THEN "" ELSE subtitle), Chars(country_name))

\* not country_name or country_name.lower() in (airport.subtitle or "").lower()
SubtitleMentions(subtitle, country_name) ==
    \/ country_name = ""
    \/ Contains(Lower(Chars(IF subtitle = Absent THEN "" ELSE subtitle)),
                Lower(Chars(country_name)))

\* the list comprehension of get_country_places over the search results
RECURSIVE TextPlaces(_, _)
TextPlaces(results, country_name) ==
    IF results = << >> THEN << >>
    ELSE LET airport == Head(results) IN
         (IF /\ airport.entity_type \in {"CITY", "AIRPORT"}
             /\ SubtitleMentions(airport.subtitle, country_name)
          THEN << CountryPlace(airport.skyId, airport.title, airport.entity_type) >>
          ELSE << >>) \o TextPlaces(Tail(results), country_name)

\* try: places = extract_country_places(hierarchy, country_code)
\* except GenericError: pass
TreePlaces(geo, country_code) ==
    IF geo.hierarchy.raised THEN << >>
    ELSE extract_country_places(geo.hierarchy.result, country_code)

\* One call of get_country_places as logged. geo is what the backend answers
\* during it: hierarchy to get_flight_geo_hierarchy() and search to
\* search_airports(query), each Raises (GenericError) or Returns(...);
\* tree_places is what the tree walk gave.
GeoCall(country_code, country_name, geo, raises, places) ==
    [op |-> "get_country_places", at |-> pc, step |-> Step,
     country_code |-> country_code, country_name |-> country_name,
     hierarchy |-> geo.hierarchy, search |-> geo.search,
     tree_places |-> TreePlaces(geo, country_code),
     raised |-> raises, result |-> places]

\* get_country_places(scanner, country_code, country_name): the call as
\* logged, with its result or the GenericError of search_airports
get_country_places(geo, country_code, country_name) ==
    LET places == TreePlaces(geo, country_code)
    IN IF places # << >>
       THEN GeoCall(country_code, country_name, geo, FALSE, places)
       ELSE IF geo.search.raised
       THEN GeoCall(country_code, country_name, geo, TRUE, << >>)
       ELSE GeoCall(country_code, country_name, geo, FALSE,
                    TextPlaces(geo.search.result, country_name))

(***************************************************************************)
(* A search to a country: the country items of the request are expanded    *)
(* into the places of the country before the destinations are resolved.    *)
(***************************************************************************)
\* Italy with Rome, its airport and a second node of the code of Rome,
\* France with Paris, and places that name their country themselves.
CountryTree ==
    Node("", "", "", "",
         << Node("COUNTRY", "IT", "Italia", "",
                 << Node("CITY", "ROM", "Roma", "",
                         << Node("AIRPORT", "FCO", "", "", << >>) >>) >>),
            Node("COUNTRY", "FR", "Francia", "",
                 << Node("CITY", "PAR", "Parigi", "", << >>) >>),
            Node("CITY", "MIL", "Milano", "IT", << >>),
            Node("AIRPORT", "LYS", "Lione", "FR", << >>),
            Node("CITY", "ROM", "Rome", "IT", << >>) >>)

\* Italy with a region between the country and its city, a city without a
\* code and a node that is no place; France beside it.
RegionTree ==
    Node("", "", "", "",
         << Node("COUNTRY", "FR", "Francia", "",
                 << Node("CITY", "PAR", "Parigi", "", << >>) >>),
            Node("COUNTRY", "IT", "Italia", "",
                 << Node("REGION", "LAZ", "Lazio", "",
                         << Node("PLACE_TYPE_CITY", "VIT", "Viterbo", "", << >>) >>),
                    Node("CITY", "", "Senza codice", "", << >>),
                    Node("REGION", "SIC", "Sicilia", "", << >>) >>),
            Node("REGION", "IT", "Italia", "",
                 << Node("CITY", "NCE", "Nizza", "", << >>) >>) >>)

EmptyTree == Node("", "", "", "", << >>)

\* search_airports("Italia") / search_airports("IT")
ItalySuggestions ==
    << Suggestion("Italia", "IT", "COUNTRY", Absent),
       Suggestion("Roma", "ROM", "CITY", "Lazio, Italia"),
       Suggestion("Milano Malpensa", "MXP", "AIRPORT", "ITALIA"),
       Suggestion("Italy Cross", "ITX", "CITY", "Italy"),
       Suggestion("Campo", "NON", "AIRPORT", Absent) >>

GeoOutcomes ==
    [hierarchy : { Raises, Returns(CountryTree), Returns(RegionTree), Returns(EmptyTree) },
     search : { Raises, Returns(<< >>), Returns(ItalySuggestions) }]

\* country_items = [item for item in dest_items if item["entity_type"] == "COUNTRY"]
CountryItems(items) == SelectSeq(items, LAMBDA item : item.entity_type = "COUNTRY")

\* for item in country_items: expanded.extend(get_country_places(...)), with
\* geos[i] the answers of the backend during call i; the calls made and the
\* places found, up to the first call that raises
RECURSIVE ExpandFrom(_, _, _, _)
ExpandFrom(country_items, geos, i, acc) ==
    IF i > Len(country_items) THEN acc
    ELSE LET item == country_items[i]
             call == get_country_places(geos[i], item.code, item.title)
             query == IF item.title # "" THEN item.title ELSE item.code
             made == << call >> \o
                     (IF TreePlaces(geos[i], item.code) = << >>
                      THEN << LookupCall(query, geos[i].search) >> ELSE << >>)
         IN IF call.raised
            THEN [raised |-> TRUE, places |-> acc.places, calls |-> acc.calls \o made]
            ELSE ExpandFrom(country_items, geos, i + 1,
                            [raised |-> FALSE, places |-> acc.places \o call.result,
                             calls |-> acc.calls \o made])

\* {"code": place["skyCode"], "entity_type": place["type"]} for place in
\* expanded if place.get("skyCode")
RECURSIVE ExpandedItems(_)
ExpandedItems(places) ==
    IF places = << >> THEN << >>
    ELSE (IF Head(places).skyCode \in {"", Absent} THEN << >>
          ELSE << Location(Head(places).skyCode, Head(places).type, "") >>)
         \o ExpandedItems(Tail(places))

\* Variant: the emptiness of the destination list is not tested.
NoDestinations_Untested(dest_codes) == FALSE

\* if not dest_codes
NoDestinations(dest_codes) == dest_codes = << >>

\* api_search 1119-1150, generate 786-827
ExpandCountries(outcomes) ==
    /\ At("resolve_dests")
    /\ CountryItems(dest_items) # << >>
    /\ LET country_items == CountryItems(dest_items)
           progress == [i \in 1..Len(country_items) |->
                           Event("progress", i, Len(country_items), 0)]
       IN
       \E geos \in [1..Len(country_items) -> outcomes] :
          LET expanded == ExpandFrom(country_items, geos, 1,
                                     [raised |-> FALSE, places |-> << >>, calls |-> << >>])
              items == SelectSeq(dest_items, LAMBDA item : item.entity_type # "COUNTRY")
                       \o ExpandedItems(expanded.places)
          IN /\ calls' = calls \o expanded.calls
             /\ IF expanded.raised
                THEN /\ Crash("GenericError")
                     /\ events' = Yield(progress)
                     /\ UNCHANGED dest_items
                ELSE /\ dest_items' = items
                     /\ pc' = pc
                     /\ UNCHANGED raised
                     /\ IF NoDestinations(dedupe_codes(items))
                        THEN /\ response' = [kind |-> "error",
                                             message |-> "Nessuna destinazione valida",
                                             flights |-> << >>]
                             /\ events' = Yield(progress \o << Event("error", 0, 0, 0) >>)
                        ELSE /\ events' = Yield(progress)
                             /\ UNCHANGED response
    /\ UNCHANGED << variant, flt, pair, flight_response, voli_trovati, voli_keys,
                    cards, accepted, firstSeen, seenIds >>
    /\ UNCHANGED << entry, payload, search_everywhere, idx, all_countries, all_cities >>
    /\ UNCHANGED << outputs, guiVars >>

\* Requests for Italy, picked with or without its title, alone, after London
\* and before France.
ExpandRequests ==
    { Payload(<< StrItem("VCE"), StrItem("TSF") >>, d, FALSE,
              JText("06/02/2026"), JNum(MAX_PRICE), JNum(MIN_DEPARTURE_HOUR), JAbsent) :
        d \in { << CountryItem("IT", "Italia") >>,
                << CountryItem("IT", "") >>,
                << DictItem("LON", Absent), CountryItem("IT", "Italia") >>,
                << CountryItem("IT", "Italia"), CountryItem("FR", "Francia") >> } }

\* get_flight_prices(origin, destination): an error, or one itinerary
ExpandFlights == { Raises, Returns(<< << PairItem >> >>) }

ExpandInit ==
    /\ SearchStart(ExpandRequests)
    /\ entry # "gui"

ExpandNext ==
    \/ ResolveOrigins
    \/ ExpandCountries(GeoOutcomes)
    \/ ResolveDests
    \/ SpecificPair(ExpandFlights)
    \/ SpecificDone

ExpandSpec == ExpandInit /\ [][ExpandNext]_vars

(***************************************************************************)
(* The places of a country, as properties of the calls of a search.        *)
(***************************************************************************)
\* The calls of get_country_places made so far.
GeoCalls == { k \in 1..Len(calls) : calls[k].op = "get_country_places" }

\* The search results, by position, that are cities or airports and whose
\* subtitle holds the country name whatever the case of the letters.
MentioningPlaces(results, country_name) ==
    { i \in 1..Len(results) :
        /\ results[i].entity_type \in {"CITY", "AIRPORT"}
        /\ Contains(Lower(Chars(IF results[i].subtitle = Absent THEN ""
                                ELSE results[i].subtitle)),
                    Lower(Chars(country_name))) }

\* `places` is the search results at the positions `kept`, in their order.
IsRestriction(places, results, kept) ==
    /\ Len(places) = Cardinality(kept)
    /\ \A i \in kept :
          places[Cardinality({ j \in kept : j <= i })] =
              CountryPlace(results[i].skyId, results[i].title, results[i].entity_type)

\* C28: get_country_places returns the matches of the tree walk when there
\* are any; when there are none or the tree could not be fetched it returns
\* the results of the text search that are cities or airports with a
\* subtitle holding the country name in any case; and it raises only when
\* the text search does, never because the tree could not be fetched.
C28_CountryPlacesFallback ==
    \A k \in GeoCalls :
        LET c == calls[k] IN
        /\ c.tree_places # << >> => ~c.raised /\ c.result = c.tree_places
        /\ (c.tree_places = << >> /\ ~c.search.raised) =>
              /\ ~c.raised
              /\ IsRestriction(c.result, c.search.result,
                               MentioningPlaces(c.search.result, c.country_name))
        /\ c.raised => c.search.raised
        /\ c.hierarchy.raised => c.tree_places = << >>

\* C28 witness: the tree could not be fetched, and of the five results of
\* the search for "Italia" the call returned Rome ("Lazio, Italia") and
\* Malpensa ("ITALIA").
C28_Witness ==
    \E k \in GeoCalls :
        /\ calls[k].hierarchy.raised
        /\ calls[k].country_name = "Italia"
        /\ calls[k].search = Returns(ItalySuggestions)
        /\ ~calls[k].raised
        /\ calls[k].result = << CountryPlace("ROM", "Roma", "CITY"),
                                CountryPlace("MXP", "Milano Malpensa", "AIRPORT") >>

\* The nodes of a tree, each as the path of child positions that leads to it.
RECURSIVE PathsOf(_)
PathsOf(node) ==
    { << >> } \cup
    UNION { { << i >> \o p : p \in PathsOf(node.children[i]) } :
            i \in 1..Len(node.children) }

RECURSIVE NodeAt(_, _)
NodeAt(node, path) ==
    IF path = << >> THEN node
    ELSE NodeAt(node.children[Head(path)], Tail(path))

\* The node at the path is a city or an airport with a code, and it names
\* the country itself or lies below a country node of that code.
IsCountryPlace(tree, path, country_code) ==
    LET node == NodeAt(tree, path) IN
    /\ \/ Contains(Chars(node.placeType), Chars("CITY"))
       \/ Contains(Chars(node.placeType), Chars("AIRPORT"))
    /\ node.skyCode # ""
    /\ \/ node.countryId = country_code
       \/ \E n \in 0..(Len(path) - 1) :
             LET above == NodeAt(tree, SubSeq(path, 1, n)) IN
             /\ Contains(Chars(above.placeType), Chars("COUNTRY"))
             /\ above.skyCode = country_code

\* C29: the tree walk returns the city and airport nodes with a code that
\* name the target country themselves or lie below a country node of that
\* code, one place per code, and no other node.
C29_TreeWalkMatches ==
    \A k \in GeoCalls :
        ~calls[k].hierarchy.raised =>
            LET tree == calls[k].hierarchy.result
                found == calls[k].tree_places
                matching == { p \in PathsOf(tree) :
                                IsCountryPlace(tree, p, calls[k].country_code) }
            IN /\ { found[i].skyCode : i \in 1..Len(found) } =
                      { NodeAt(tree, p).skyCode : p \in matching }
               /\ \A i, j \in 1..Len(found) : found[i].skyCode = found[j].skyCode => i = j
               /\ \A i \in 1..Len(found) :
                     \E p \in matching :
                        LET node == NodeAt(tree, p) IN
                        /\ found[i].skyCode = node.skyCode
                        /\ found[i].name = IF node.name # "" THEN node.name ELSE node.skyCode
                        /\ found[i].type \in {"CITY", "AIRPORT"}
                        /\ Contains(Chars(node.placeType), Chars(found[i].type))

\* C29 witness: on the tree with France beside Italy and a region between
\* Italy and its city, the walk for IT returned the city below the region
\* and nothing of France or of the region that has the code IT.
C29_Witness ==
    \E k \in GeoCalls :
        /\ calls[k].hierarchy = Returns(RegionTree)
        /\ calls[k].country_code = "IT"
        /\ calls[k].tree_places = << CountryPlace("VIT", "Viterbo", "CITY") >>

\* The flight queries made so far.
FlightCalls == { k \in 1..Len(calls) : calls[k].op = "get_flight_prices" }

\* C27: the country items of a request are replaced, before any flight
\* query, by the places found for their countries (the flight queries go to
\* those places and to the explicit destinations only), and every flight
\* record found for a place of a country has that country's display name as
\* its country.
C27_ExpandedCountryTag ==
    /\ FlightCalls # {} => CountryItems(dest_items) = << >>
    /\ \A k \in GeoCalls, j \in FlightCalls : k < j
    /\ \A j \in FlightCalls :
          \/ \E i \in 1..Len(payload.destinations) :
                /\ payload.destinations[i].entity_type # "COUNTRY"
                /\ ItemCode(payload.destinations[i]) = calls[j].destination.skyId
          \/ \E k \in GeoCalls : \E i \in 1..Len(calls[k].result) :
                calls[k].result[i].skyCode = calls[j].destination.skyId
    /\ \A k \in GeoCalls :
          \A i \in 1..Len(calls[k].result), n \in 1..Len(voli_trovati) :
             voli_trovati[n].codice_dest = calls[k].result[i].skyCode =>
                voli_trovati[n].paese = calls[k].country_name

(***************************************************************************)
(* The stopover entries of a flight record.                                *)
(***************************************************************************)
\* The whole minutes from the arrival of a segment to the departure of the
\* next one (negative when the next one leaves first).
GapMinutes(seg, next_seg) ==
    TruncDiv60(TotalSeconds(next_seg.departure) - TotalSeconds(seg.arrival))

\* C30: a record of an item with stops and n > 1 segments has n - 1 stopover
\* entries, entry i at the destination of segment i, with the wait written
\* "Xh YYmin" when the minutes from the arrival of segment i to the departure
\* of segment i + 1 are positive and empty when they are zero or negative;
\* a record of an item without stops has no stopover entry.
C30_StopoverEntries ==
    \A n \in 1..Len(voli_trovati) :
        LET f == voli_trovati[n]
            segments == f.raw.segments
        IN /\ f.raw.stopCount = 0 => f.stopovers = << >>
           /\ (f.raw.stopCount > 0 /\ Len(segments) > 1) =>
                 /\ Len(f.stopovers) = Len(segments) - 1
                 /\ \A i \in 1..(Len(segments) - 1) :
                       LET gap == GapMinutes(segments[i], segments[i + 1]) IN
                       /\ f.stopovers[i].codice = segments[i].displayCode
                       /\ f.stopovers[i].citta = segments[i].name
                       /\ f.stopovers[i].arrivo = strftime(segments[i].arrival)
                       /\ f.stopovers[i].partenza = strftime(segments[i + 1].departure)
                       /\ gap > 0 =>
                             f.stopovers[i].attesa =
                                ToString(gap \div 60) \o "h " \o
                                (IF gap % 60 < 10 THEN "0" ELSE "") \o
                                ToString(gap % 60) \o "min"
                       /\ gap <= 0 => f.stopovers[i].attesa = ""

\* C30 witness: the list holds the record of the itinerary of three segments
\* with its two entries of empty wait (the connections leave at the minute
\* of the arrival and ten minutes before it) and a record with one entry
\* of "0h 30min".
C30_Witness ==
    /\ \E n \in 1..Len(voli_trovati) :
          /\ voli_trovati[n].raw = TwoStops
          /\ Len(voli_trovati[n].stopovers) = 2
          /\ voli_trovati[n].stopovers[1].codice = "MXP"
          /\ voli_trovati[n].stopovers[1].attesa = ""
          /\ voli_trovati[n].stopovers[2].codice = "FCO"
          /\ voli_trovati[n].stopovers[2].attesa = ""
    /\ \E n \in 1..Len(voli_trovati) :
          /\ voli_trovati[n].raw = OneStop
          /\ voli_trovati[n].stopovers[1].attesa = "0h 30min"

(***************************************************************************)
(* Collisions in the ledger of the GUI.                                    *)
(***************************************************************************)
\* Item i of the response in hand is handed to the ledger by a builder call
\* that raises nothing.
HandedOver(i) ==
    /\ WellFormed(ResponseItems[i])
    /\ PassesFilters(ResponseItems[i])
    /\ FirstOfId(i)

\* The positions of a list whose record has the GUI key of the flight.
GuiKeyPositions(list, flight) ==
    { n \in 1..Len(list) : KeyTuple("gui", list[n]) = KeyTuple("gui", flight) }

\* C31: in the GUI two accepted flights of one response with the same
\* origin, destination, departure time and price and different carriers
\* collide: after the call the list holds one record of that key and one
\* flight card is scheduled for it; the record is the one the list held
\* before the call, or else that of the first item of the key.
C31_GuiCarriersCollide ==
    [][ (pc = "process" /\ variant = "gui" /\ raised' = "none") =>
          \A i, j \in 1..Len(ResponseItems) :
              (/\ i < j
               /\ HandedOver(i) /\ HandedOver(j)
               /\ KeyTuple("gui", RecordOf(ResponseItems[i])) =
                     KeyTuple("gui", RecordOf(ResponseItems[j]))
               /\ RecordOf(ResponseItems[i]).compagnia #
                     RecordOf(ResponseItems[j]).compagnia)
              => LET flight == RecordOf(ResponseItems[i])
                     first == CHOOSE n \in 1..i :
                                 /\ HandedOver(n)
                                 /\ KeyTuple("gui", RecordOf(ResponseItems[n])) =
                                       KeyTuple("gui", flight)
                                 /\ \A m \in 1..(n - 1) :
                                       HandedOver(m) =>
                                          KeyTuple("gui", RecordOf(ResponseItems[m])) #
                                             KeyTuple("gui", flight)
                 IN /\ Cardinality(GuiKeyPositions(voli_trovati', flight)) = 1
                    /\ Cardinality(GuiKeyPositions(cards', flight)) = 1
                    /\ \A n \in GuiKeyPositions(voli_trovati', flight) :
                          /\ \E c \in GuiKeyPositions(cards', flight) :
                                cards'[c] = voli_trovati'[n]
                          /\ IF GuiKeyPositions(voli_trovati, flight) # {}
                             THEN n <= Len(voli_trovati) /\ voli_trovati'[n] = voli_trovati[n]
                             ELSE voli_trovati'[n] = RecordOf(ResponseItems[first]) ]_vars

\* C31 witness: the GUI builder returned from a response of two items of
\* different carriers and one key on an empty list, and the list and the
\* cards hold the record of the first item only.
C31_Witness ==
    /\ variant = "gui"
    /\ pc = "returned"
    /\ raised = "none"
    /\ pair = 1
    /\ Len(ResponseItems) = 2
    /\ HandedOver(1) /\ HandedOver(2)
    /\ KeyTuple("gui", RecordOf(ResponseItems[1])) = KeyTuple("gui", RecordOf(ResponseItems[2]))
    /\ RecordOf(ResponseItems[1]).compagnia # RecordOf(ResponseItems[2]).compagnia
    /\ voli_trovati = << RecordOf(ResponseItems[1]) >>
    /\ cards = << RecordOf(ResponseItems[1]) >>

(***************************************************************************)
(* The ledger map and the aggregate list of a server search.               *)
(***************************************************************************)
\* The key a record has by its own fields.
OwnKey(flight) ==
    flight.codice_origine \o "-" \o flight.codice_dest \o "-" \o
    flight.partenza \o "-" \o flight.compagnia

\* The map has one entry per list position, and each key maps to the
\* (0-based) index of a record of that key.
LedgerAgrees ==
    /\ Cardinality(DOMAIN voli_keys) = Len(voli_trovati)
    /\ \A n \in 1..Len(voli_trovati) : \E k \in DOMAIN voli_keys : voli_keys[k] = n - 1
    /\ \A k \in DOMAIN voli_keys :
          /\ voli_keys[k] \in 0..(Len(voli_trovati) - 1)
          /\ OwnKey(voli_trovati[voli_keys[k] + 1]) = k

\* A step keeps the length or grows the list, keeps every entry of the map,
\* and changes a position only to a cheaper record of the same key.
LedgerStep ==
    /\ Len(voli_trovati') >= Len(voli_trovati)
    /\ \A k \in DOMAIN voli_keys :
          k \in DOMAIN voli_keys' /\ voli_keys'[k] = voli_keys[k]
    /\ \A n \in 1..Len(voli_trovati) :
          \/ voli_trovati'[n] = voli_trovati[n]
          \/ /\ OwnKey(voli_trovati'[n]) = OwnKey(voli_trovati[n])
             /\ voli_trovati'[n].prezzo < voli_trovati[n].prezzo

\* C32: in a server search the ledger map and the aggregate list agree in
\* every state (one entry per position, each key at the index of a record
\* of that key), the list never gets shorter, and a merge changes only the
\* record of the colliding key, the other positions and the entries of the
\* map staying as they are.
C32_LedgerAgreesWithList ==
    /\ [](variant = "server" => LedgerAgrees)
    /\ [][variant = "server" => LedgerStep]_vars

\* C32 witness: a server search has a list of two records whose first
\* record replaced a dearer one of its key after the second was appended.
C32_Witness ==
    /\ variant = "server"
    /\ entry # "gui"
    /\ Len(voli_trovati) = 2
    /\ voli_trovati[1].raw = Cheaper
    /\ voli_keys[OwnKey(voli_trovati[1])] = 0
    /\ voli_keys[OwnKey(voli_trovati[2])] = 1
    /\ \E k \in 1..Len(calls) :
          /\ calls[k].op = "get_flight_prices"
          /\ calls[k].result = << << Base, OtherCarrier >> >>

(***************************************************************************)
(* One request sent to the streaming endpoint and then to the synchronous  *)
(* one, the backend giving the second search the answers it gave the       *)
(* first.                                                                  *)
(***************************************************************************)
\* The streamed search has yielded its complete event: what it yielded and
\* what the backend answered is noted, and api_search gets the same request.
SearchAgain ==
    /\ entry = "api_search_stream"
    /\ pc = "done"
    /\ outputs = << >>
    /\ outputs' = << [events |-> events, calls |-> calls] >>
    /\ entry' = "api_search"
    /\ pc' = "start"
    /\ pair' = 1
    /\ idx' = 1
    /\ flight_response' = << >>
    /\ voli_trovati' = << >>
    /\ voli_keys' = << >>
    /\ raised' = "none"
    /\ cards' = << >>
    /\ accepted' = {}
    /\ firstSeen' = << >>
    /\ seenIds' = {}
    /\ all_countries' = << >>
    /\ all_cities' = << >>
    /\ events' = << >>
    /\ response' = NoResponse
    /\ calls' = << >>
    /\ dest_items' = normalize_selected_locations(payload.destinations)
    /\ UNCHANGED << variant, flt, payload, search_everywhere, guiVars >>

\* The backend answers the second search as it answered the first: the
\* calls of the second search are the first calls of the first one.
SameAnswers ==
    outputs # << >> =>
        /\ Len(calls') <= Len(outputs[1].calls)
        /\ calls' = SubSeq(outputs[1].calls, 1, Len(calls'))

TwinInit ==
    /\ SearchStart(SearchRequests)
    /\ entry = "api_search_stream"

TwinNext ==
    \/ ResolveOrigins /\ SameAnswers
    \/ WorldScan(SmallWorld) /\ SameAnswers
    \/ WorldScanDone
    \/ DrillDown([code \in STRING |-> SmallLookups(code)], SmallDrills) /\ SameAnswers
    \/ DrillDownDone
    \/ EverywherePair([code \in STRING |-> SmallLookups(code)], SmallFlights) /\ SameAnswers
    \/ EverywhereDone
    \/ ResolveDests /\ SameAnswers
    \/ SpecificPair(SmallFlights) /\ SameAnswers
    \/ SpecificDone
    \/ SearchAgain

TwinSpec == TwinInit /\ [][TwinNext]_vars

\* The complete event of the streamed search.
StreamComplete == outputs[1].events[Len(outputs[1].events)]

\* C33: for one request and the same answers of the backend, the
\* synchronous search ends with a response whose flights, statistics, count
\* and everywhere flag are those of the complete event of the streamed
\* search, in everywhere and in specific-destination mode; it makes the same
\* backend calls on the way and ends in no other way.
C33_StreamEqualsSync ==
    /\ (outputs # << >> /\ calls = outputs[1].calls) =>
          response.kind \in {"none", "flights"}
    /\ (outputs # << >> /\ response.kind # "none") =>
          /\ response.kind = "flights"
          /\ calls = outputs[1].calls
          /\ response.flights = StreamComplete.flights
          /\ response.stats = StreamComplete.stats
          /\ response.count = StreamComplete.count
          /\ response.search_everywhere = StreamComplete.search_everywhere

\* C33 witness: api_search has answered the request for everywhere that the
\* stream answered before, with two flights found under one country and two
\* cities.
C33_Witness ==
    /\ outputs # << >>
    /\ entry = "api_search"
    /\ pc = "done"
    /\ search_everywhere
    /\ response.kind = "flights"
    /\ response.count = 2
    /\ StreamComplete.type = "complete"
    /\ StreamComplete.count = 2
    /\ response.stats.citta >= 1

(***************************************************************************)
(* The complete event against the results events before it.                *)
(***************************************************************************)
RECURSIVE Batches(_, _)
\* The same set, batch by batch.
Batches(evs, n) ==
    IF n = 0 THEN {}
    ELSE Batches(evs, n - 1) \cup
         (IF evs[n].type = "results"
          THEN { evs[n].flights[j] : j \in 1..Len(evs[n].flights) }
          ELSE {})

\* C34: the records of the complete event of a stream are the records of
\* the results events that came before it on the stream, no more and no
\* fewer.
C34_CompleteIsUnionOfBatches ==
    \A n \in 1..Len(events) :
        (entry = "api_search_stream" /\ events[n].type = "complete") =>
            { events[n].flights[j] : j \in 1..Len(events[n].flights) }
                = Batches(events, n - 1)

(***************************************************************************)
(* One raw response fed twice to the builder of one search: the second     *)
(* call finds the list and the ledger the first call left.                 *)
(***************************************************************************)
\* Variant: every call of the builder gets a ledger of its own.
KeptLedger_MadeAnew == IF variant = "server" THEN << >> ELSE {}

\* The ledger is made once per search and handed to every call.
KeptLedger == voli_keys

\* The builder has returned (or raised): the list and ledger it left are
\* noted, and after the first call the same response is handed to a second
\* call on the same list and ledger.
FeedSame ==
    /\ pc = "returned"
    /\ outputs' = Append(outputs, [voli_trovati |-> voli_trovati,
                                   voli_keys |-> voli_keys, raised |-> raised])
    /\ IF outputs = << >>
       THEN /\ pc' = "process"
            /\ voli_trovati' = KeptList
            /\ voli_keys' = KeptLedger
            /\ raised' = "none"
            /\ seenIds' = seenIds \cup ResponseIds
       ELSE /\ pc' = "done"
            /\ UNCHANGED << voli_trovati, voli_keys, raised, seenIds >>
    /\ UNCHANGED << variant, flt, pair, flight_response, cards, accepted, firstSeen >>
    /\ UNCHANGED << searchVars, dest_items, guiVars >>

AbsorbNext ==
    \/ GetFlightPrices
    \/ ProcessFlightResponse
    \/ GuiProcessFlightResponse
    \/ FeedSame

AbsorbSpec == Init /\ [][AbsorbNext]_vars

\* C35: a raw response fed to a list and ledger that have absorbed the
\* same response leaves the list and the ledger as they were, in the server
\* and in the GUI, also when the builder raises on the way.
C35_AbsorbedResponseChangesNothing ==
    Len(outputs) = 2 =>
        /\ outputs[2].voli_trovati = outputs[1].voli_trovati
        /\ outputs[2].voli_keys = outputs[1].voli_keys

\* C35 witness: the second call has returned, on a response with two
\* itineraries of one key of which the second is the cheaper, and the list
\* holds the one record the first call left.
C35_Witness ==
    /\ Len(outputs) = 2
    /\ variant = "server"
    /\ Len(Flatten(flight_response)) = 2
    /\ Len(outputs[1].voli_trovati) = 1
    /\ outputs[1].voli_trovati[1].raw = Flatten(flight_response)[2]
    /\ outputs[1].voli_trovati[1].prezzo < RecordOf(Flatten(flight_response)[1]).prezzo

(***************************************************************************)
(* The mode of a server search: requests with the flag set and clear, and  *)
(* with no destination, London, "EVERYWHERE", both, and an item without a  *)
(* code, from the request to the answer.                                   *)
(***************************************************************************)
ModeRequests ==
    { Payload(<< StrItem("VCE"), StrItem("TSF") >>, d, e,
              JText("06/02/2026"), JNum(MAX_PRICE), JNum(MIN_DEPARTURE_HOUR), JAbsent) :
        d \in { << >>, << DictItem("LON", Absent) >>, << StrItem("EVERYWHERE") >>,
                << DictItem("LON", Absent), StrItem("EVERYWHERE") >>,
                << DictItem("", Absent) >> },
        e \in BOOLEAN }

ModeInit ==
    /\ entry \in {"api_search", "api_search_stream"}
    /\ payload \in ModeRequests
    /\ pc = "request"
    /\ variant = "server"
    /\ flt = RequestFilters(Payload(<< >>, << >>, FALSE, JAbsent, JAbsent, JAbsent, JAbsent))
    /\ search_everywhere = FALSE
    /\ pair = 1
    /\ idx = 1
    /\ flight_response = << >>
    /\ voli_trovati = << >>
    /\ voli_keys = << >>
    /\ raised = "none"
    /\ cards = << >>
    /\ accepted = {}
    /\ firstSeen = << >>
    /\ seenIds = {}
    /\ all_countries = << >>
    /\ all_cities = << >>
    /\ events = << >>
    /\ response = NoResponse
    /\ calls = << >>
    /\ dest_items = normalize_selected_locations(payload.destinations)
    /\ outputs = << >>
    /\ GuiIdle

ModeNext ==
    \/ ApiSearch
    \/ ApiSearchStream
    \/ ResolveOrigins
    \/ WorldScan({ Raises, Returns(<< Spagna >>) })
    \/ WorldScanDone
    \/ DrillDown([code \in STRING |-> { Returns(<< Airport(code, code) >>) }],
                 { Returns(<< Barcellona >>) })
    \/ DrillDownDone
    \/ EverywherePair([code \in STRING |-> SmallLookups(code)], SmallFlights)
    \/ EverywhereDone
    \/ ResolveDests
    \/ SpecificPair(SmallFlights)
    \/ SpecificDone

ModeSpec == ModeInit /\ [][ModeNext]_vars

\* The search has gone the everywhere way / the way of the explicit
\* destinations: each way starts with a backend call of its own.
EverywhereChosen == \E k \in 1..Len(calls) : calls[k].at = "world_scan"
SpecificChosen == \E k \in 1..Len(calls) : calls[k].at = "resolve_dests"

\* The destination codes of the request other than "EVERYWHERE".
ExplicitCodes ==
    { DestCodes(payload)[i] : i \in 1..Len(DestCodes(payload)) } \ {"EVERYWHERE"}

\* C36: a server search goes the everywhere way exactly when the request
\* has the flag set, or no destination code after deduplication, or the code
\* "EVERYWHERE" among them; on that way no destination code of the request
\* is resolved or queried, and the answer carries the flag of the mode.
C36_EverywhereModeChoice ==
    LET codes == DestCodes(payload)
        everywhere == \/ payload.search_everywhere
                      \/ codes = << >>
                      \/ \E i \in 1..Len(codes) : codes[i] = "EVERYWHERE"
    IN
    /\ pc \notin {"request", "start"} =>
          /\ everywhere <=> (pc = "world_scan" \/ EverywhereChosen)
          /\ ~everywhere <=> (pc = "resolve_dests" \/ SpecificChosen)
    /\ everywhere =>
          \A k \in 1..Len(calls) :
              /\ calls[k].at /= "resolve_dests"
              /\ calls[k].query \notin ExplicitCodes
              /\ calls[k].destination.skyId \notin ExplicitCodes
    /\ response.kind = "flights" => response.search_everywhere = everywhere

\* C36 witness: a request with the flag clear and the destinations London
\* and "EVERYWHERE" has been answered after a scan from both origins and
\* flight queries to a city the scan found.
C36_Witness ==
    /\ ~payload.search_everywhere
    /\ ExplicitCodes = {"LON"}
    /\ Len(DestCodes(payload)) = 2
    /\ pc = "done"
    /\ response.kind = "flights"
    /\ response.search_everywhere
    /\ \E k \in 1..Len(calls) : calls[k].op = "get_flight_prices" /\ calls[k].at = "pairs"

(***************************************************************************)
(* The end of a search whose countries expand to nothing.                  *)
(***************************************************************************)
\* The countries of the request have been expanded (the calls for their
\* places were made and none of them raised).
Expanded == GeoCalls # {} /\ \A k \in GeoCalls : ~calls[k].raised

NoDestinationError ==
    /\ response.kind = "error"
    /\ response.message = "Nessuna destinazione valida"

\* C37: when the expansion of the countries of a request leaves no
\* destination code, the search ends with the error for no valid destination
\* (the error response, and on the stream an error event as the last event)
\* and makes no flight query; when a code is left, the destination list
\* holds no country item any more.
C37_NoDestinationEndsSearch ==
    /\ Expanded =>
          /\ dedupe_codes(dest_items) = << >> <=> NoDestinationError
          /\ dedupe_codes(dest_items) # << >> => CountryItems(dest_items) = << >>
    /\ NoDestinationError =>
          /\ FlightCalls = {}
          /\ \A k \in 1..Len(calls) : calls[k].at # "pairs"
          /\ entry = "api_search_stream" =>
                /\ events # << >>
                /\ events[Len(events)].type = "error"
                /\ \A i \in 1..Len(events) : events[i].type \notin {"results", "complete"}

\* C37 witness: a streamed search for Italy alone, whose tree has no place
\* and whose text search finds none, has ended with the error event.
C37_Witness ==
    /\ entry = "api_search_stream"
    /\ NoDestinationError
    /\ Expanded
    /\ Len(payload.destinations) = 1
    /\ \E k \in 1..Len(calls) : calls[k].op = "search_airports" /\ ~calls[k].raised
    /\ events[Len(events)].type = "error"

(***************************************************************************)
(* The threads of the desktop application: the main loop of Tk, which runs *)
(* start_search on a click and the callbacks of root.after, and the worker *)
(* threads of search_flights, one statement of the clauses of its try at a *)
(* time.                                                                   *)
(***************************************************************************)
MaxSearches == 2

\* What start_search reads from the form: the selected origins and
\* destinations, "Ovunque", and whether date, price and hour parse.
Form(origins, everywhere, dests, values_ok) ==
    [origins |-> origins, everywhere |-> everywhere, dests |-> dests,
     values_ok |-> values_ok]

Forms ==
    { Form(<< >>, FALSE, << "LON" >>, TRUE),
      Form(<< "VCE" >>, FALSE, << "LON" >>, FALSE),
      Form(<< "VCE" >>, TRUE, << >>, TRUE),
      Form(<< "VCE" >>, FALSE, << "LON" >>, TRUE),
      Form(<< "VCE" >>, FALSE, << >>, TRUE) }

\* root.after(0, callback)
After(f, arg) == Append(after_queue, [f |-> f, arg |-> arg])

widgetVars == << search_after_id, search_results, dropdown_visible, allow_everywhere,
                 lookup_threads, issued >>

\* start_search 914-958, called by the search button (command=self.start_search,
\* 751); a disabled button does not call its command
StartSearch ==
    /\ search_btn = "normal"
    /\ Len(search_threads) < MaxSearches
    /\ \E form \in Forms :
          IF searching \/ form.origins = << >> \/ ~form.values_ok
          THEN UNCHANGED << searching, search_btn, results_title, search_threads >>
          ELSE /\ searching' = TRUE
               /\ search_btn' = "disabled"
               /\ results_title' = "Ricerca in corso..."
               /\ search_threads' =
                     Append(search_threads,
                            [pc |-> "try", raised |-> FALSE,
                             search_everywhere |-> form.everywhere,
                             dest_list |-> IF form.everywhere THEN << >> ELSE form.dests])
    /\ UNCHANGED << after_queue, widgetVars >>
    /\ UNCHANGED << builderVars, searchVars, dest_items, outputs >>

\* Variant: an exception ends the thread, no clause of the try is run.
NextAfterRaise_ThreadDies == "ended"

\* except Exception as e
NextAfterRaise == "except"

\* search_flights 997-1018: the body of the try returns (after a search in
\* one of the two modes, or with nothing to search) or raises
Try(i) ==
    /\ search_threads[i].pc = "try"
    /\ \/ search_threads' = [search_threads EXCEPT ![i].pc = "finally"]
       \/ search_threads' = [search_threads EXCEPT ![i].pc = NextAfterRaise,
                                                   ![i].raised = TRUE]
    /\ UNCHANGED << searching, search_btn, results_title, after_queue, widgetVars >>
    /\ UNCHANGED << builderVars, searchVars, dest_items, outputs >>

\* search_flights 1020-1025
Except(i) ==
    /\ search_threads[i].pc = "except"
    /\ after_queue' = After("messagebox.showerror", << >>)
    /\ search_threads' = [search_threads EXCEPT ![i].pc = "finally"]
    /\ UNCHANGED << searching, search_btn, results_title, widgetVars >>
    /\ UNCHANGED << builderVars, searchVars, dest_items, outputs >>

\* search_flights 1028: self.searching = False
FinallyFlag(i) ==
    /\ search_threads[i].pc = "finally"
    /\ searching' = FALSE
    /\ search_threads' = [search_threads EXCEPT ![i].pc = "after_btn"]
    /\ UNCHANGED << search_btn, results_title, after_queue, widgetVars >>
    /\ UNCHANGED << builderVars, searchVars, dest_items, outputs >>

\* search_flights 1029-1030: self.root.after(0, lambda: self.search_btn.config(...))
FinallyButton(i) ==
    /\ search_threads[i].pc = "after_btn"
    /\ after_queue' = After("search_btn.config", << >>)
    /\ search_threads' = [search_threads EXCEPT ![i].pc = "after_title"]
    /\ UNCHANGED << searching, search_btn, results_title, widgetVars >>
    /\ UNCHANGED << builderVars, searchVars, dest_items, outputs >>

\* search_flights 1031-1032: self.root.after(0, lambda: self.results_title.config(...)),
\* the last statement of the thread
FinallyTitle(i) ==
    /\ search_threads[i].pc = "after_title"
    /\ after_queue' = After("results_title.config", << >>)
    /\ search_threads' = [search_threads EXCEPT ![i].pc = "ended"]
    /\ UNCHANGED << searching, search_btn, results_title, widgetVars >>
    /\ UNCHANGED << builderVars, searchVars, dest_items, outputs >>

\* _update_dropdown 128-136: self.search_results = results[:8]; the dropdown
\* is hidden when there is nothing to show and shown otherwise
UpdateDropdown(results) ==
    /\ search_results' = SubSeq(results, 1, IF Len(results) < 8 THEN Len(results) ELSE 8)
    /\ dropdown_visible' = (search_results' # << >> \/ allow_everywhere)

\* The main loop runs the oldest callback of root.after(0, ...).
RunAfter ==
    /\ after_queue # << >>
    /\ after_queue' = Tail(after_queue)
    /\ LET callback == Head(after_queue) IN
       /\ search_btn' = IF callback.f = "search_btn.config" THEN "normal" ELSE search_btn
       /\ results_title' = IF callback.f = "results_title.config" THEN "Trovati"
                           ELSE results_title
       /\ IF callback.f = "_update_dropdown"
          THEN UpdateDropdown(callback.arg)
          ELSE UNCHANGED << search_results, dropdown_visible >>
    /\ UNCHANGED << searching, search_threads, search_after_id, allow_everywhere,
                    lookup_threads, issued >>
    /\ UNCHANGED << builderVars, searchVars, dest_items, outputs >>

\* No request: the variables of the builder and of the orchestrator keep the
\* values of an application that has not searched.
ThreadInit ==
    /\ variant = "gui"
    /\ flt = [f \in {"none"} |-> 0]
    /\ pc = "idle"
    /\ pair = 1
    /\ flight_response = << >>
    /\ voli_trovati = << >>
    /\ voli_keys = {}
    /\ raised = "none"
    /\ cards = << >>
    /\ accepted = {}
    /\ firstSeen = << >>
    /\ seenIds = {}
    /\ SearchIdle

ThreadNext ==
    \/ StartSearch
    \/ \E i \in 1..Len(search_threads) : Try(i)
    \/ \E i \in 1..Len(search_threads) : Except(i)
    \/ \E i \in 1..Len(search_threads) : FinallyFlag(i)
    \/ \E i \in 1..Len(search_threads) : FinallyButton(i)
    \/ \E i \in 1..Len(search_threads) : FinallyTitle(i)
    \/ RunAfter

ThreadSpec == ThreadInit /\ [][ThreadNext]_vars

\* The worker threads that have not run their last statement.
ActiveThreads == { i \in 1..Len(search_threads) : search_threads[i].pc # "ended" }

\* The worker threads that have not cleared the flag yet.
SearchingThreads ==
    { i \in 1..Len(search_threads) : search_threads[i].pc \in {"try", "except", "finally"} }

\* C38: at most one worker thread of search_flights is active at any time,
\* and while one is searching the flag is set.
C38_OneSearchThread ==
    /\ Cardinality(ActiveThreads) <= 1
    /\ SearchingThreads # {} => searching

(***************************************************************************)
(* The same threads under the scheduling the program relies on: a started  *)
(* thread goes on running until its last statement, and the main loop      *)
(* goes on running the callbacks handed to it.                             *)
(***************************************************************************)
\* A statement of worker thread i.
Worker(i) ==
    /\ i <= Len(search_threads)
    /\ Try(i) \/ Except(i) \/ FinallyFlag(i) \/ FinallyButton(i) \/ FinallyTitle(i)

ThreadLiveSpec ==
    /\ ThreadInit
    /\ [][ThreadNext]_vars
    /\ \A i \in 1..MaxSearches : WF_vars(Worker(i))
    /\ WF_vars(RunAfter)

\* start_search gets past its checks and starts a worker thread.
Accepted == StartSearch /\ Len(search_threads') = Len(search_threads) + 1

\* Search i has been started / is over: its thread has cleared the flag,
\* the flag is clear and the button is enabled again.
Started(i) == Len(search_threads) >= i
Over(i) ==
    /\ Started(i)
    /\ i \notin SearchingThreads
    /\ ~searching
    /\ search_btn = "normal"

\* C39: every search that was started is over at some later time, with the
\* flag clear and the search button enabled, whether the body of
\* search_flights returned or raised; and whenever the flag is clear and the
\* button enabled, start_search accepts a new search.
C39_SearchEndsAndButtonReturns ==
    /\ \A i \in 1..MaxSearches : Started(i) ~> Over(i)
    /\ [][(~searching /\ search_btn = "normal" /\ Len(search_threads) < MaxSearches)
             => ENABLED Accepted]_vars

\* C39 witness: the second search, started after the first one raised, has
\* raised too and is over.
C39_Witness ==
    /\ Len(search_threads) = 2
    /\ Over(2)
    /\ search_threads[2].pc = "ended"
    /\ search_threads[1].raised
    /\ search_threads[2].raised

(***************************************************************************)
(* The autocomplete of one AirportSearchWidget: key releases and the       *)
(* debounce timer on the main loop, one thread per lookup, and the         *)
(* callbacks with the answers.                                             *)
(***************************************************************************)
MaxQueries == 2

\* The text of the entry after a key release, stripped.
Typed == { "v", "ve", "ven" }

\* scanner.search_airports(query): an error, nothing, or the places of the
\* query (nine of them for "ve")
Suggestions(query) ==
    { Raises, Returns(<< >>),
      Returns(IF query = "ven" THEN << "VCE", "VEN" >>
              ELSE << "VCE", "VRN", "VEN", "VER", "VEY", "VEL", "VEE", "VEX", "VEZ" >>) }

\* _on_key_release 92-107: the pending timer is cancelled; a query of two
\* characters or more gets a new timer, a shorter one hides the dropdown
KeyRelease ==
    /\ \E query \in Typed :
          IF Len(query) >= 2
          THEN /\ search_after_id' = query
               /\ UNCHANGED dropdown_visible
          ELSE /\ search_after_id' = ""
               /\ dropdown_visible' = FALSE
    /\ UNCHANGED << search_results, allow_everywhere, lookup_threads, issued >>
    /\ UNCHANGED << searching, search_btn, results_title, search_threads, after_queue >>
    /\ UNCHANGED << builderVars, searchVars, dest_items, outputs >>

\* _search_airports 109-126, 300 ms after the key release: a thread is
\* started for the query
DebounceFires ==
    /\ search_after_id # ""
    /\ Len(issued) < MaxQueries
    /\ lookup_threads' = Append(lookup_threads,
                                [query |-> search_after_id, pc |-> "running",
                                 results |-> << >>])
    /\ issued' = Append(issued, search_after_id)
    /\ search_after_id' = ""
    /\ UNCHANGED << search_results, dropdown_visible, allow_everywhere >>
    /\ UNCHANGED << searching, search_btn, results_title, search_threads, after_queue >>
    /\ UNCHANGED << builderVars, searchVars, dest_items, outputs >>

\* do_search 111-123: the backend answers the thread, which hands the
\* results (none after an exception) to the main loop and ends
LookupAnswers(i) ==
    /\ lookup_threads[i].pc = "running"
    /\ \E out \in Suggestions(lookup_threads[i].query) :
          /\ lookup_threads' = [lookup_threads EXCEPT ![i].pc = "ended",
                                                      ![i].results = out.result]
          /\ after_queue' = After("_update_dropdown", out.result)
    /\ UNCHANGED << search_after_id, search_results, dropdown_visible, allow_everywhere,
                    issued >>
    /\ UNCHANGED << searching, search_btn, results_title, search_threads >>
    /\ UNCHANGED << builderVars, searchVars, dest_items, outputs >>

\* The widget of the origins (allow_everywhere False) or of the destinations.
WidgetInit ==
    /\ variant = "gui"
    /\ flt = [f \in {"none"} |-> 0]
    /\ pc = "idle"
    /\ pair = 1
    /\ flight_response = << >>
    /\ voli_trovati = << >>
    /\ voli_keys = {}
    /\ raised = "none"
    /\ cards = << >>
    /\ accepted = {}
    /\ firstSeen = << >>
    /\ seenIds = {}
    /\ entry = "gui"
    /\ payload = << >>
    /\ search_everywhere = FALSE
    /\ idx = 0
    /\ all_countries = << >>
    /\ all_cities = << >>
    /\ events = << >>
    /\ response = NoResponse
    /\ calls = << >>
    /\ dest_items = << >>
    /\ outputs = << >>
    /\ searching = FALSE
    /\ search_btn = "normal"
    /\ results_title = ""
    /\ search_threads = << >>
    /\ after_queue = << >>
    /\ search_after_id = ""
    /\ search_results = << >>
    /\ dropdown_visible = FALSE
    /\ allow_everywhere \in BOOLEAN
    /\ lookup_threads = << >>
    /\ issued = << >>

WidgetNext ==
    \/ KeyRelease
    \/ DebounceFires
    \/ \E i \in 1..Len(lookup_threads) : LookupAnswers(i)
    \/ RunAfter

WidgetSpec == WidgetInit /\ [][WidgetNext]_vars

\* Every lookup thread has answered and the main loop has run the callback
\* of every answer.
AllAnswered ==
    /\ lookup_threads # << >>
    /\ \A i \in 1..Len(lookup_threads) : lookup_threads[i].pc = "ended"
    /\ \A n \in 1..Len(after_queue) : after_queue[n].f # "_update_dropdown"

\* C40: once every lookup thread has answered, the dropdown holds the
\* results (the first eight) of the query issued last.
C40_LatestQueryShown ==
    AllAnswered =>
        LET last == lookup_threads[Len(lookup_threads)].results IN
        search_results = SubSeq(last, 1, IF Len(last) < 8 THEN Len(last) ELSE 8)

====
